---- MODULE Spec2Model ----
(***************************************************************************)
(* Risk-gated order pipeline of ig-sentiment-trader.                       *)
(*                                                                         *)
(*   login_only/risk_guards.py  guard_preflight, guard_postsize and the    *)
(*                              ledger roll-ups they read                  *)
(*   login_only/trade_once.py   main / run_loop: one pass over the         *)
(*                              watchlist, sized_order, place_order,       *)
(*                              write_log                                  *)
(*                                                                         *)
(* Units.  Time is counted in minutes since midnight UTC of the first day  *)
(* (a day has DayLen minutes).  Money is counted in thousandths of a GBP,  *)
(* so that the two-decimal formatting of eff_risk_gbp in the ledger        *)
(* (f"{eff_risk:.2f}") is a rounding to a multiple of 10.  Sizes are       *)
(* counted in thousandths of a lot, so eff_risk = size * vpp * stop_pts    *)
(* is exact.  The 1e-9 tolerances of the guards are below this resolution. *)
(***************************************************************************)
EXTENDS Integers, Sequences, FiniteSets, TLC

\* ---------------------------------------------------------------- bounds
MaxIters == 2     \* watchlist iterations started in one behaviour
DayLen == 3       \* minutes in a (scaled-down) UTC day
MaxFaults == 1    \* broker / oracle failures in one behaviour
MaxClock == 3     \* last minute the clock reaches: day 0 and the start of day 1

\* Python's None for a number, and a metadata key that was never set.
None == 0 - 1
Unset == 0 - 2

Max2(a, b) == IF a >= b THEN a ELSE b

RECURSIVE SumSeq(_)
SumSeq(s) == IF s = << >> THEN 0 ELSE Head(s) + SumSeq(Tail(s))

\* strftime("%Y-%m-%d") of a time: the UTC day it falls in.
Day(t) == t \div DayLen

\* f"{x:.2f}": x (thousandths) rounded to a whole number of hundredths,
\* ties to even.
fmt2f(x) ==
  LET q == x \div 10
      r == x % 10
  IN  IF r < 5 THEN 10 * q
      ELSE IF r > 5 THEN 10 * (q + 1)
      ELSE IF q % 2 = 0 THEN 10 * q ELSE 10 * (q + 1)

\* ------------------------------------------------------------- ledger
OrderClass == {"ORDER_SENT", "ORDER_DRY"}


\* (as a bug would have it: no row is taken for one of today)
orders_today_none(log, now) ==
  SelectSeq(log, LAMBDA r : FALSE)

\* rows whose ts_utc starts with today's date
orders_today(log, now) ==
  SelectSeq(log, LAMBDA r : Day(r.ts_utc) = Day(now))

orders_today_for_instrument(log, now, name) ==
  SelectSeq(orders_today(log, now), LAMBDA r : r.name = name)

\* (as a bug would have it: every row of today counted, of whatever kind)
count_orders_today_any_event(log, now, name) ==
  Len(orders_today_for_instrument(log, now, name))

count_orders_today_instrument(log, now, name) ==
  Len(SelectSeq(orders_today_for_instrument(log, now, name),
                LAMBDA r : r.event \in OrderClass))

last_order_time_instrument(log, now, name) ==
  LET recs == SelectSeq(orders_today_for_instrument(log, now, name),
                        LAMBDA r : r.event \in OrderClass)
      times == {recs[i].ts_utc : i \in 1..Len(recs)}
  IN  IF times = {} THEN None
      ELSE CHOOSE t \in times : \A u \in times : u <= t

\* (as a bug would have it: dry-run orders forgotten)
today_committed_risk_sent_only(log, now) ==
  LET recs == SelectSeq(orders_today(log, now),
                        LAMBDA r : r.event = "ORDER_SENT")
  IN  SumSeq([i \in 1..Len(recs) |-> IF recs[i].eff_risk_gbp = None THEN 0
                                     ELSE recs[i].eff_risk_gbp])

\* float(r.get("eff_risk_gbp") or 0.0): a blank cell counts 0
today_committed_risk_gbp(log, now) ==
  LET recs == SelectSeq(orders_today(log, now),
                        LAMBDA r : r.event \in OrderClass)
  IN  SumSeq([i \in 1..Len(recs) |-> IF recs[i].eff_risk_gbp = None THEN 0
                                     ELSE recs[i].eff_risk_gbp])

\* ------------------------------------------------ balance baseline file
\* (as a bug would have it: a missing balance read as 0)
current_balance_or_zero(me) ==
  IF me.kind = "ok" THEN me.balance ELSE 0

\* me: the broker's answer to GET /session
_current_balance_gbp(me) ==
  IF me.kind = "ok" THEN me.balance ELSE None

\* (as a bug would have it: the baseline file rewritten at every call)
baseline_rewritten_each_call(me, files, now) ==
  LET cur == IF me.kind = "ok" THEN me.balance ELSE None
      d == Day(now)
  IN  IF cur = None
      THEN [baseline |-> None, current |-> None, loss |-> None,
            files |-> files]
      ELSE LET baseline == IF files[d] = None THEN cur ELSE files[d]
           IN  [baseline |-> baseline, current |-> cur,
                loss |-> Max2(0, baseline - cur),
                files |-> [files EXCEPT ![d] = cur]]

\* (as a bug would have it: the loss not floored at 0)
baseline_and_signed_loss(me, files, now) ==
  LET cur == IF me.kind = "ok" THEN me.balance ELSE None
      d == Day(now)
  IN  IF cur = None
      THEN [baseline |-> None, current |-> None, loss |-> None,
            files |-> files]
      ELSE LET baseline == IF files[d] = None THEN cur ELSE files[d]
           IN  [baseline |-> baseline, current |-> cur,
                loss |-> baseline - cur,
                files |-> [files EXCEPT ![d] = baseline]]

\* files: day -> baseline stored in pnl_baseline_<day>.json, None if the
\* file does not exist.  Returns the triple and the files afterwards.
ensure_daily_baseline_and_loss(me, files, now) ==
  LET cur == _current_balance_gbp(me)
      d == Day(now)
  IN  IF cur = None
      THEN [baseline |-> None, current |-> None, loss |-> None,
            files |-> files]
      ELSE LET baseline == IF files[d] = None THEN cur ELSE files[d]
           IN  [baseline |-> baseline, current |-> cur,
                loss |-> Max2(0, baseline - cur),
                files |-> [files EXCEPT ![d] = baseline]]

\* ------------------------------------------------------ trading window
\* now_utc.astimezone(tz): the local minute of day, tz an offset in minutes
LocalMinute(now, tz) == (now + tz) % DayLen

\* (as a bug would have it: no wrap over midnight)
window_ok_same_day(local, start_dt, end_dt) ==
  start_dt <= local /\ local <= end_dt

\* ok = start_dt <= local <= end_dt if end_dt >= start_dt else (...):
\* the three datetimes share the local date, so they compare as minutes
\* of the day
window_ok(local, start_dt, end_dt) ==
  IF end_dt >= start_dt
  THEN start_dt <= local /\ local <= end_dt
  ELSE local >= start_dt \/ local <= end_dt

in_trading_window(cfg, now) ==
  IF ~cfg.th_enabled THEN TRUE
  ELSE window_ok(LocalMinute(now, cfg.th_tz), cfg.th_start, cfg.th_end)

\* ------------------------------------------------------------ guard API
GuardResult(ok, reason, meta) == [ok |-> ok, reason |-> reason, meta |-> meta]

\* (as a bug would have it: the per-run cap compared with > )
guard_preflight_cap_off_by_one(cfg, run_trade_count, pos) ==
  LET mtr == cfg.max_trades_per_run
      mcp == cfg.max_concurrent_positions
      open_n == IF pos.kind = "ok" THEN pos.n ELSE 0
      meta0 == [open_positions |-> Unset]
  IN  IF ~cfg.enabled THEN GuardResult(TRUE, "RG_DISABLED", meta0)
      ELSE IF mtr # 0 /\ run_trade_count > mtr
      THEN GuardResult(FALSE, "BLOCK_MAX_TRADES_PER_RUN", meta0)
      ELSE IF mcp # 0 /\ open_n >= mcp
      THEN GuardResult(FALSE, "BLOCK_MAX_CONCURRENT_POSITIONS",
                       [open_positions |-> open_n])
      ELSE GuardResult(TRUE, "RG_OK",
                       [open_positions |-> IF mcp # 0 THEN open_n ELSE Unset])

\* (as a bug would have it: the per-run cap looked at before `enabled`)
guard_preflight_cap_before_enabled(cfg, run_trade_count, pos) ==
  LET mtr == cfg.max_trades_per_run
      mcp == cfg.max_concurrent_positions
      open_n == IF pos.kind = "ok" THEN pos.n ELSE 0
      meta0 == [open_positions |-> Unset]
  IN  IF mtr # 0 /\ run_trade_count >= mtr
      THEN GuardResult(FALSE, "BLOCK_MAX_TRADES_PER_RUN", meta0)
      ELSE IF ~cfg.enabled THEN GuardResult(TRUE, "RG_DISABLED", meta0)
      ELSE IF mcp # 0 /\ open_n >= mcp
      THEN GuardResult(FALSE, "BLOCK_MAX_CONCURRENT_POSITIONS",
                       [open_positions |-> open_n])
      ELSE GuardResult(TRUE, "RG_OK",
                       [open_positions |-> IF mcp # 0 THEN open_n ELSE Unset])

\* (as a bug would have it: a failed position query blocks)
guard_preflight_fail_closed(cfg, run_trade_count, pos) ==
  LET mtr == cfg.max_trades_per_run
      mcp == cfg.max_concurrent_positions
      open_n == IF pos.kind = "ok" THEN pos.n ELSE mcp
      meta0 == [open_positions |-> Unset]
  IN  IF ~cfg.enabled THEN GuardResult(TRUE, "RG_DISABLED", meta0)
      ELSE IF mtr # 0 /\ run_trade_count >= mtr
      THEN GuardResult(FALSE, "BLOCK_MAX_TRADES_PER_RUN", meta0)
      ELSE IF mcp # 0 /\ open_n >= mcp
      THEN GuardResult(FALSE, "BLOCK_MAX_CONCURRENT_POSITIONS",
                       [open_positions |-> open_n])
      ELSE GuardResult(TRUE, "RG_OK",
                       [open_positions |-> IF mcp # 0 THEN open_n ELSE Unset])

\* pos: the broker's answer to GET /positions
guard_preflight(cfg, run_trade_count, pos) ==
  LET mtr == cfg.max_trades_per_run
      mcp == cfg.max_concurrent_positions
      open_n == IF pos.kind = "ok" THEN pos.n ELSE 0
      meta0 == [open_positions |-> Unset]
  IN  IF ~cfg.enabled THEN GuardResult(TRUE, "RG_DISABLED", meta0)
      ELSE IF mtr # 0 /\ run_trade_count >= mtr
      THEN GuardResult(FALSE, "BLOCK_MAX_TRADES_PER_RUN", meta0)
      ELSE IF mcp # 0 /\ open_n >= mcp
      THEN GuardResult(FALSE, "BLOCK_MAX_CONCURRENT_POSITIONS",
                       [open_positions |-> open_n])
      ELSE GuardResult(TRUE, "RG_OK",
                       [open_positions |-> IF mcp # 0 THEN open_n ELSE Unset])

PostMeta0 ==
  [orders_today_instrument |-> Unset, last_order_ts |-> Unset,
   today_committed_risk_gbp |-> Unset, pnl_baseline_gbp |-> Unset,
   current_balance_gbp |-> Unset, realized_loss_gbp |-> Unset]

\* (as a bug would have it: the budget looked at before the instrument's
\* daily cap and cooldown)
guard_postsize_budget_first(cfg, log, now, files, me, instrument_name, planned) ==
  LET max_tpd == cfg.max_trades_per_day
      count_i == count_orders_today_instrument(log, now, instrument_name)
      budget == cfg.daily_risk_budget_gbp
      committed == today_committed_risk_gbp(log, now)
      mD == IF budget > 0
            THEN [PostMeta0 EXCEPT !.today_committed_risk_gbp = committed]
            ELSE PostMeta0
      mB == IF max_tpd # 0
            THEN [mD EXCEPT !.orders_today_instrument = count_i]
            ELSE mD
      cooldown_min == cfg.cooldown_min
      last_ts == last_order_time_instrument(log, now, instrument_name)
      mC == IF cooldown_min > 0 THEN [mB EXCEPT !.last_order_ts = last_ts]
            ELSE mB
      dll == cfg.daily_loss_limit_gbp
      bl == ensure_daily_baseline_and_loss(me, files, now)
      mE == [mC EXCEPT !.pnl_baseline_gbp = bl.baseline,
                       !.current_balance_gbp = bl.current,
                       !.realized_loss_gbp = bl.loss]
      res(ok, reason, meta, f) ==
        [ok |-> ok, reason |-> reason, meta |-> meta, files |-> f]
  IN  IF ~cfg.enabled THEN res(TRUE, "RG_DISABLED", PostMeta0, files)
      ELSE IF ~in_trading_window(cfg, now)
      THEN res(FALSE, "BLOCK_TRADING_WINDOW", PostMeta0, files)
      ELSE IF budget > 0 /\ committed + Max2(0, planned) > budget
      THEN res(FALSE, "BLOCK_DAILY_RISK_BUDGET", mD, files)
      ELSE IF max_tpd # 0 /\ count_i >= max_tpd
      THEN res(FALSE, "BLOCK_MAX_TRADES_PER_DAY_INSTRUMENT", mB, files)
      ELSE IF cooldown_min > 0 /\ last_ts # None
              /\ now < last_ts + cooldown_min
      THEN res(FALSE, "BLOCK_COOLDOWN_INSTRUMENT", mC, files)
      ELSE IF dll > 0
      THEN IF bl.loss = None \/ bl.baseline = None
           THEN res(TRUE, "RG2_OK", mE, bl.files)
           ELSE IF bl.loss >= dll
           THEN res(FALSE, "BLOCK_DAILY_LOSS_LIMIT", mE, bl.files)
           ELSE res(TRUE, "RG2_OK", mE, bl.files)
      ELSE res(TRUE, "RG2_OK", mC, files)

\* The result also carries the baseline files as the evaluation leaves them.
guard_postsize(cfg, log, now, files, me, instrument_name, planned) ==
  LET max_tpd == cfg.max_trades_per_day
      count_i == count_orders_today_instrument(log, now, instrument_name)
      mB == IF max_tpd # 0
            THEN [PostMeta0 EXCEPT !.orders_today_instrument = count_i]
            ELSE PostMeta0
      cooldown_min == cfg.cooldown_min
      last_ts == last_order_time_instrument(log, now, instrument_name)
      mC == IF cooldown_min > 0 THEN [mB EXCEPT !.last_order_ts = last_ts]
            ELSE mB
      budget == cfg.daily_risk_budget_gbp
      committed == today_committed_risk_gbp(log, now)
      mD == IF budget > 0
            THEN [mC EXCEPT !.today_committed_risk_gbp = committed]
            ELSE mC
      dll == cfg.daily_loss_limit_gbp
      bl == ensure_daily_baseline_and_loss(me, files, now)
      mE == [mD EXCEPT !.pnl_baseline_gbp = bl.baseline,
                       !.current_balance_gbp = bl.current,
                       !.realized_loss_gbp = bl.loss]
      res(ok, reason, meta, f) ==
        [ok |-> ok, reason |-> reason, meta |-> meta, files |-> f]
  IN  IF ~cfg.enabled THEN res(TRUE, "RG_DISABLED", PostMeta0, files)
      ELSE IF ~in_trading_window(cfg, now)
      THEN res(FALSE, "BLOCK_TRADING_WINDOW", PostMeta0, files)
      ELSE IF max_tpd # 0 /\ count_i >= max_tpd
      THEN res(FALSE, "BLOCK_MAX_TRADES_PER_DAY_INSTRUMENT", mB, files)
      ELSE IF cooldown_min > 0 /\ last_ts # None
              /\ now < last_ts + cooldown_min
      THEN res(FALSE, "BLOCK_COOLDOWN_INSTRUMENT", mC, files)
      ELSE IF budget > 0 /\ committed + Max2(0, planned) > budget
      THEN res(FALSE, "BLOCK_DAILY_RISK_BUDGET", mD, files)
      ELSE IF dll > 0
      THEN IF bl.loss = None \/ bl.baseline = None
           THEN res(TRUE, "RG2_OK", mE, bl.files)
           ELSE IF bl.loss >= dll
           THEN res(FALSE, "BLOCK_DAILY_LOSS_LIMIT", mE, bl.files)
           ELSE res(TRUE, "RG2_OK", mE, bl.files)
      ELSE res(TRUE, "RG2_OK", mD, files)


\* ------------------------------------------------- signal and sizing
\* (as a bug would have it: the thresholds themselves do not qualify)
simple_signal_strict(df, rsi_buy_min, rsi_sell_max, warmup_bars) ==
  IF df.n < warmup_bars THEN "HOLD"
  ELSE IF df.sma20 = None \/ df.rsi14 = None THEN "HOLD"
  ELSE IF df.close > df.sma20 /\ df.rsi14 > rsi_buy_min THEN "BUY"
  ELSE IF df.close < df.sma20 /\ df.rsi14 < rsi_sell_max THEN "SELL"
  ELSE "HOLD"

\* (as a bug would have it: the bar count is not looked at)
simple_signal_no_warmup(df, rsi_buy_min, rsi_sell_max, warmup_bars) ==
  IF df.sma20 = None \/ df.rsi14 = None THEN "HOLD"
  ELSE IF df.close > df.sma20 /\ df.rsi14 >= rsi_buy_min THEN "BUY"
  ELSE IF df.close < df.sma20 /\ df.rsi14 <= rsi_sell_max THEN "SELL"
  ELSE "HOLD"

\* df: what the bar fetch leaves after the indicators are computed: the
\* number of bars and the last bar's close, sma20 and rsi14 (None = NaN)
simple_signal(df, rsi_buy_min, rsi_sell_max, warmup_bars) ==
  IF df.n < warmup_bars THEN "HOLD"
  ELSE IF df.sma20 = None \/ df.rsi14 = None THEN "HOLD"
  ELSE IF df.close > df.sma20 /\ df.rsi14 >= rsi_buy_min THEN "BUY"
  ELSE IF df.close < df.sma20 /\ df.rsi14 <= rsi_sell_max THEN "SELL"
  ELSE "HOLD"

\* The indicators of the last bar, from the closes s of the bars.  A frame
\* holds prices in 1/SmaLen of the unit of the closes, so that the mean of
\* SmaLen closes is a whole number; an RSI is rounded down to a whole
\* number (the bars of the model have whole RSIs).
SmaLen == 20
RsiLen == 14

\* s.rolling(n, min_periods=n).mean(), last value, times n
sma(s, n) ==
  IF Len(s) < n THEN None
  ELSE SumSeq(SubSeq(s, Len(s) - n + 1, Len(s)))

\* rsi(s, n), last value: the means of the gains and of the losses of the
\* last n differences; up / 0 is inf and gives 100, 0 / 0 is NaN
rsi(s, n) ==
  IF Len(s) < n + 1 THEN None
  ELSE LET d(k) == s[Len(s) - n + k] - s[Len(s) - n + k - 1]
           up == SumSeq([k \in 1..n |-> Max2(d(k), 0)])
           dn == SumSeq([k \in 1..n |-> Max2(0 - d(k), 0)])
       IN  IF dn = 0 THEN (IF up = 0 THEN None ELSE 100)
           ELSE (100 * up) \div (up + dn)

\* the frame run_loop hands to simple_signal: prices_df_from_json and the
\* two indicator columns
Frame(s) ==
  [kind |-> "ok", n |-> Len(s),
   close |-> IF s = << >> THEN None ELSE SmaLen * s[Len(s)],
   sma20 |-> sma(s, SmaLen), rsi14 |-> rsi(s, RsiLen)]

\* (as a bug would have it: mode "up", ceil(value/step)*step)
snap_up(num, den, step) ==
  IF step <= 0 THEN num \div den
  ELSE ((num + den * step - 1) \div (den * step)) * step

\* snap(value, step, "down") for value = num / den: floor(value/step)*step
snap(num, den, step) ==
  IF step <= 0 THEN num \div den ELSE (num \div (den * step)) * step

\* sized_order: None when value-per-point cannot be determined
\* (RuntimeError), else the final size.  stop_pts >= 1 here, so the
\* max(stop_pts, 1e-9) of the code is stop_pts.
sized_order(mk, risk_gbp, stop_pts) ==
  IF mk.vpp <= 0 THEN None
  ELSE LET size == snap(risk_gbp, stop_pts * mk.vpp, mk.step)
       IN  IF size < mk.min_sz THEN mk.min_sz ELSE size

\* ---------------------------------------------------- configuration
\* bot_config.json.  Thresholds are from the code's defaults where the
\* model does not vary them.
CfgBase ==
  [enabled |-> TRUE, max_trades_per_run |-> 0, max_concurrent_positions |-> 0,
   th_enabled |-> FALSE, th_start |-> 0, th_end |-> 0, th_tz |-> 0,
   max_trades_per_day |-> 0, cooldown_min |-> 0,
   daily_risk_budget_gbp |-> 0, daily_loss_limit_gbp |-> 0,
   count_dry_as_trade |-> TRUE,
   sentiment_enabled |-> FALSE, min_score |-> 15,
   risk_per_trade_gbp |-> 12, warmup_bars |-> 20,
   rsi_buy_min |-> 55, rsi_sell_max |-> 45]

\* guards switched off, every threshold at a blocking value
CfgOff ==
  [CfgBase EXCEPT !.enabled = FALSE, !.max_trades_per_run = 1,
                  !.max_concurrent_positions = 1,
                  !.th_enabled = TRUE, !.th_start = 1, !.th_end = 1,
                  !.max_trades_per_day = 1, !.cooldown_min = 2,
                  !.daily_risk_budget_gbp = 5, !.daily_loss_limit_gbp = 3]

\* the sentiment gate in front of the guards
CfgGate ==
  [CfgBase EXCEPT !.sentiment_enabled = TRUE, !.max_trades_per_day = 1,
                  !.daily_risk_budget_gbp = 20]

\* per-run cap and concurrent-position cap
CfgRun ==
  [CfgBase EXCEPT !.max_trades_per_run = 1, !.max_concurrent_positions = 1]

CfgRunNoDry ==
  [CfgBase EXCEPT !.max_trades_per_run = 1, !.count_dry_as_trade = FALSE]

\* per-instrument daily cap; cooldown
CfgCap == [CfgBase EXCEPT !.max_trades_per_day = 1]

CfgCool == [CfgBase EXCEPT !.cooldown_min = 2]

\* trading hours spanning midnight, local time one minute ahead of UTC
\* (inside at UTC minutes 1 and 2 of the day, outside at minute 0), a
\* cooldown of one minute and a budget of a whole number of pence
CfgBudget ==
  [CfgBase EXCEPT !.th_enabled = TRUE, !.th_start = 2, !.th_end = 0,
                  !.th_tz = 1, !.cooldown_min = 1,
                  !.daily_risk_budget_gbp = 20]

\* a budget that is not a whole number of pence
CfgBudgetOdd == [CfgBase EXCEPT !.daily_risk_budget_gbp = 26]

\* a budget that A's effective risk 10 plus B's requested risk 12 fits
\* in, and A's plus B's effective risk 16 does not
CfgFloor == [CfgBase EXCEPT !.daily_risk_budget_gbp = 24]

\* daily loss limit behind a budget
CfgLoss ==
  [CfgBase EXCEPT !.daily_risk_budget_gbp = 20, !.daily_loss_limit_gbp = 3]

\* cfg["watchlist"]: one instrument, or two
Watchlists ==
  { << [name |-> "A", stop_points |-> 1] >>,
    << [name |-> "A", stop_points |-> 1], [name |-> "B", stop_points |-> 1] >> }

\* ------------------------------------------------ the broker's answers
NotAsked == [kind |-> "none", n |-> 0]
PositionsResponses ==
  {[kind |-> "err", n |-> 0], [kind |-> "ok", n |-> 0], [kind |-> "ok", n |-> 1]}

MeNotAsked == [kind |-> "none", balance |-> None]
MeResponses ==
  {[kind |-> "err", balance |-> None], [kind |-> "nobal", balance |-> None],
   [kind |-> "ok", balance |-> 95], [kind |-> "ok", balance |-> 97],
   [kind |-> "ok", balance |-> 100]}

\* GET /markets/{epic}: contractSize, minDealSize value and step,
\* minimum stop distance; or an HTTP error
MkBlank == [kind |-> "none", vpp |-> 0, min_sz |-> 0, step |-> 0, min_stop |-> 0]
\* An instrument's dealing rules are the broker's, the same at every call:
\* A is sized to 5 at a stop widened to 2 (effective risk 10), B is lifted
\* to its minimum size 16 (effective risk 16).  A body without a usable
\* contractSize gives vpp = 0.
MarketResponses(name) ==
  {[kind |-> "err", vpp |-> 0, min_sz |-> 0, step |-> 0, min_stop |-> 0],
   [kind |-> "ok", vpp |-> 0, min_sz |-> 5, step |-> 5, min_stop |-> 0],
   IF name = "A"
   THEN [kind |-> "ok", vpp |-> 1, min_sz |-> 5, step |-> 5, min_stop |-> 2]
   ELSE [kind |-> "ok", vpp |-> 1, min_sz |-> 16, step |-> 4, min_stop |-> 0]}

\* GET /prices: an HTTP error, or the bars
PricesResponses ==
  {[kind |-> "err", n |-> 0, close |-> None, sma20 |-> None, rsi14 |-> None],
   [kind |-> "ok", n |-> 0, close |-> None, sma20 |-> None, rsi14 |-> None],
   [kind |-> "ok", n |-> 5, close |-> 11, sma20 |-> None, rsi14 |-> None],
   [kind |-> "ok", n |-> 30, close |-> 11, sma20 |-> 10, rsi14 |-> 58],
   [kind |-> "ok", n |-> 30, close |-> 9, sma20 |-> 10, rsi14 |-> 40],
   [kind |-> "ok", n |-> 30, close |-> 9, sma20 |-> 10, rsi14 |-> 49]}

\* get_sentiment_for_price_action: None, or a score in hundredths (below,
\* at and above sentiment.min_score)
SentimentResults == {None, 10, 15, 20}

\* ig.place_position: a deal reference, a body without one, an HTTP
\* error, or another exception (timeout, connection error)
PlaceResponses == {"ref", "noref", "http", "exc"}

\* (as a bug would have it: the payload posted before `live` is looked at)
place_order_posts_first(direction, size, stop_dist, live, resp) ==
  LET payload == [direction |-> direction, size |-> size,
                  stopDistance |-> stop_dist]
  IN  IF ~live
      THEN [kind |-> "dry", payload |-> payload, calls |-> 1, ref |-> ""]
      ELSE IF resp = "ref"
      THEN [kind |-> "ok", payload |-> payload, calls |-> 1, ref |-> "REF"]
      ELSE IF resp = "noref"
      THEN [kind |-> "ok", payload |-> payload, calls |-> 1, ref |-> ""]
      ELSE IF resp = "http"
      THEN [kind |-> "fail", payload |-> payload, calls |-> 1, ref |-> ""]
      ELSE [kind |-> "raise", payload |-> payload, calls |-> 1, ref |-> ""]

\* place_order: the payload, and in live mode the outcome of the one
\* ig.place_position call (calls: how often the order endpoint was called).
\* An exception other than requests.HTTPError is not caught ("raise").
place_order(direction, size, stop_dist, live, resp) ==
  LET payload == [direction |-> direction, size |-> size,
                  stopDistance |-> stop_dist]
  IN  IF ~live
      THEN [kind |-> "dry", payload |-> payload, calls |-> 0, ref |-> ""]
      ELSE IF resp = "ref"
      THEN [kind |-> "ok", payload |-> payload, calls |-> 1, ref |-> "REF"]
      ELSE IF resp = "noref"
      THEN [kind |-> "ok", payload |-> payload, calls |-> 1, ref |-> ""]
      ELSE IF resp = "http"
      THEN [kind |-> "fail", payload |-> payload, calls |-> 1, ref |-> ""]
      ELSE [kind |-> "raise", payload |-> payload, calls |-> 1, ref |-> ""]

\* no payload_json in a row
NoPayload == [direction |-> "", size |-> None, stopDistance |-> None]

\* ------------------------------------------------------------- state
VARIABLES
  clock,        \* minutes since the start of day 0 (UTC)
  ledger,       \* trade_log.csv: the rows in file order
  files,        \* pnl_baseline_<day>.json: day -> baseline or None
  cfg,          \* bot_config.json
  watchlist,    \* cfg["watchlist"]
  iters,        \* watchlist iterations started so far
  pc,           \* where the current run stands
  run,          \* run_loop's locals that live across instruments
  it,           \* run_loop's locals of the current iteration
  faults,       \* failures of the broker or the sentiment oracle so far
  brokerOrders, \* calls of ig.place_position so far
  payloads,     \* order payloads built by place_order so far
  win,          \* an evaluation of in_trading_window on its own
  enrich,       \* main() starts confirm_and_enrich.py after run_loop
  rec,          \* confirm_and_enrich.main's locals
  other         \* a second trade_once process: its position and locals

vars == <<clock, ledger, files, cfg, watchlist, iters, pc, run, it, faults, brokerOrders, payloads, win, enrich, rec, other>>

Days == 0..(MaxClock \div DayLen)

\* outcomes: the instrument of each entry of run_loop's outcomes list;
\* calls: the watchlist positions ig.place_position was called for
RunBlank == [rid |-> None, live |-> FALSE, idx |-> 0, run_trade_count |-> 0,
             startLen |-> 0, outcomes |-> << >>, calls |-> << >>,
             ack |-> << >>]

RgBlank == [ok |-> FALSE, reason |-> "", meta |-> [open_positions |-> Unset]]
Rg2Blank == [ok |-> FALSE, reason |-> "", meta |-> PostMeta0]

\* df: the answer of GET /prices where it is an input of the behaviour
DfBlank == [kind |-> "none", n |-> 0, close |-> None, sma20 |-> None,
            rsi14 |-> None]

\* reply: what the sentiment model's endpoint does where it is an input
\* of the behaviour
ReplyBlank ==
  [kind |-> "none", label |-> "", score |-> [kind |-> "missing", v |-> 0]]

ItBlank ==
  [ts_utc |-> None, name |-> "", stop_pts |-> 0, mk |-> MkBlank,
   df |-> DfBlank, reply |-> ReplyBlank,
   sig |-> "", sent |-> Unset, size |-> None, eff_risk |-> None,
   pos |-> NotAsked, rg1 |-> RgBlank,
   g2_now |-> None, g2_len |-> 0, g2_files |-> None, g2_planned |-> None,
   me |-> MeNotAsked, rg2 |-> Rg2Blank]

WinBlank == [done |-> FALSE, ok |-> FALSE]

\* positions_cache = None
NoCache == [loaded |-> FALSE, list |-> << >>]

\* what a round of the reconciler's loop did: polling succeeded, the
\* requests it made, the open positions were asked for, that call raised
NoRound == [ok |-> FALSE, calls |-> 0, asked |-> FALSE, raised |-> FALSE]

\* arg: --run-id (None: not given); rows_len: the rows read; sent: the
\* positions in the ledger of the ORDER_SENT rows to confirm; k: the one
\* the loop is at; last: the round before; parent: the run whose main()
\* started the pass (None: started by hand); manual: a pass was started by
\* hand; poll: a polling of the confirmation endpoint on its own; pick: a
\* call of pick_match on its own
RecBlank ==
  [arg |-> None, rid |-> None, rows_len |-> 0, sent |-> << >>, k |-> 0,
   cache |-> NoCache, last |-> NoRound,
   parent |-> None, manual |-> FALSE,
   poll |-> [fn |-> "", attempts |-> 0, answers |-> << >>, out |-> << >>],
   pick |-> [positions |-> << >>, epic |-> "", direction |-> "",
             size_hint |-> None, out |-> << >>]]

\* no second process
OtherBlank == [pc |-> "off", run |-> RunBlank, it |-> ItBlank]

\* The state before the first run: an empty ledger, no baseline file, a
\* configuration file out of C, and the post-run enrich step on (e) or off
\* (--no-enrich, or confirm_and_enrich.py not installed).
Boot(C, e, W) ==
  /\ clock = 0
  /\ ledger = << >>
  /\ files = [d \in Days |-> None]
  /\ cfg \in C
  /\ watchlist \in W
  /\ iters = 0
  /\ pc = "idle"
  /\ run = RunBlank
  /\ it = ItBlank
  /\ faults = 0
  /\ brokerOrders = 0
  /\ payloads = 0
  /\ win = WinBlank
  /\ enrich = e
  /\ rec = RecBlank
  /\ other = OtherBlank

Start(C) == Boot(C, FALSE, Watchlists)

Init == Start({CfgGate, CfgOff})

\* A row of the ledger as write_log writes it: base_row plus the event's
\* fields; a missing key is written blank.
Row(event, status, signal, eff, ref) ==
  [ts_utc |-> it.ts_utc, run_id |-> run.rid,
   name |-> it.name, signal |-> signal, event |-> event, status |-> status,
   size_final |-> None, eff_risk_gbp |-> eff, dealReference |-> ref,
   payload_json |-> NoPayload]

\* the row of an order outcome: sizes, effective risk and the payload
OrderRow(event, status, out) ==
  [Row(event, status, it.sig, fmt2f(it.eff_risk), out.ref)
     EXCEPT !.size_final = it.size, !.payload_json = out.payload]

\* write_log: append the rows
write_log(rows) == ledger' = ledger \o rows

\* `continue` / end of the loop body: on to the next watchlist item
NextInstrument(r) ==
  /\ run' = [r EXCEPT !.idx = @ + 1, !.outcomes = Append(@, it.name)]
  /\ it' = ItBlank
  /\ pc' = IF r.idx < Len(watchlist) THEN "preflight" ELSE "summary"

\* An answer that is a failure (an exception, an HTTP error, a body without
\* the expected content) uses up one of the MaxFaults failures.
Failure(f) ==
  /\ f => faults < MaxFaults
  /\ faults' = IF f THEN faults + 1 ELSE faults

\* Time passes.  The code reads the clock when a run starts (run id), when
\* an iteration starts (base_row) and inside guard_postsize, so these are
\* the places where elapsed time can be observed: between runs, between
\* two iterations (the broker calls of the earlier one) and between the
\* start of an iteration and its guard_postsize (its own broker calls).
\* The run id and the first base_row are stamped back to back.
Tick ==
  /\ \/ pc \in {"idle", "postsize"}
     \/ pc = "preflight" /\ run.idx > 1
  /\ clock < MaxClock
  /\ clock' = clock + 1
  /\ UNCHANGED <<ledger, files, cfg, watchlist, iters, pc, run, it, faults, brokerOrders, payloads, win, enrich, rec, other>>

\* main(): the live prompt, login, and the start of run_loop
StartRun ==
  /\ pc = "idle"
  /\ iters < MaxIters
  /\ \E mode \in {"dry", "live_ack", "live_noack"} :
       IF mode = "live_noack"
       THEN UNCHANGED <<pc, run, it>>
       ELSE /\ run' = [RunBlank EXCEPT !.rid = clock,
                                       !.live = (mode = "live_ack"),
                                       !.idx = 1, !.startLen = Len(ledger)]
            /\ it' = ItBlank
            /\ pc' = IF Len(watchlist) = 0 THEN "summary" ELSE "preflight"
  /\ UNCHANGED <<clock, ledger, files, cfg, watchlist, iters, faults, brokerOrders, payloads, win, enrich, rec, other>>

\* The iteration starts: base_row is stamped, guard_preflight is evaluated.
\* GET /positions is asked only when the concurrent cap is reached.
Preflight ==
  /\ pc = "preflight"
  /\ iters < MaxIters
  /\ iters' = iters + 1
  /\ LET item == watchlist[run.idx]
         asked == cfg.enabled /\ cfg.max_concurrent_positions # 0
                  /\ ~(cfg.max_trades_per_run # 0
                       /\ run.run_trade_count >= cfg.max_trades_per_run)
     IN  \E pos \in (IF asked THEN PositionsResponses ELSE {NotAsked}) :
           /\ Failure(pos.kind = "err")
           /\ it' = [ItBlank EXCEPT
                       !.ts_utc = clock, !.name = item.name,
                       !.stop_pts = item.stop_points, !.pos = pos,
                       !.rg1 = guard_preflight(cfg, run.run_trade_count, pos)]
  /\ pc' = "pre_eval"
  /\ UNCHANGED <<clock, ledger, files, cfg, watchlist, run, brokerOrders, payloads, win, enrich, rec, other>>

PreflightBranch ==
  /\ pc = "pre_eval"
  /\ IF ~it.rg1.ok
     THEN /\ write_log(<<Row("NO_ORDER", "risk_guard_pre", "", None, "")>>)
          /\ NextInstrument(run)
     ELSE /\ pc' = "market"
          /\ UNCHANGED <<ledger, run, it>>
  /\ UNCHANGED <<clock, files, cfg, watchlist, iters, faults, brokerOrders, payloads, win, enrich, rec, other>>

FetchMarket ==
  /\ pc = "market"
  /\ \E mk \in MarketResponses(it.name) :
       /\ Failure(mk.kind = "err" \/ mk.vpp <= 0)
       /\ IF mk.kind = "err"
          THEN /\ write_log(<<Row("ERROR", "http", "", None, "")>>)
               /\ NextInstrument(run)
          ELSE /\ it' = [it EXCEPT !.mk = mk,
                                   !.stop_pts = Max2(it.stop_pts, mk.min_stop)]
               /\ pc' = "prices"
               /\ UNCHANGED <<ledger, run>>
  /\ UNCHANGED <<clock, files, cfg, watchlist, iters, brokerOrders, payloads, win, enrich, rec, other>>

FetchPricesOf(R) ==
  /\ pc = "prices"
  /\ \E df \in R :
       LET sig == simple_signal(df, cfg.rsi_buy_min, cfg.rsi_sell_max,
                                cfg.warmup_bars)
       IN  /\ Failure(df.kind = "err" \/ df.n = 0)
           /\ IF df.kind = "err"
              THEN /\ write_log(<<Row("ERROR", "http", "", None, "")>>)
                   /\ NextInstrument(run)
              ELSE IF df.n = 0
              THEN /\ write_log(<<Row("ERROR", "no_candles", "", None, "")>>)
                   /\ NextInstrument(run)
              ELSE IF sig = "HOLD"
              THEN /\ write_log(<<Row("SIGNAL", "ok", sig, None, ""),
                                  Row("NO_ORDER", "hold", sig, None, "")>>)
                   /\ NextInstrument(run)
              ELSE /\ write_log(<<Row("SIGNAL", "ok", sig, None, "")>>)
                   /\ it' = [it EXCEPT !.sig = sig]
                   /\ pc' = "sentiment"
                   /\ UNCHANGED run
  /\ UNCHANGED <<clock, files, cfg, watchlist, iters, brokerOrders, payloads, win, enrich, rec, other>>

FetchPrices == FetchPricesOf(PricesResponses)

\* (as a bug would have it: an unavailable sentiment result lets the
\* order through)
SentimentGate_fail_open ==
  /\ pc = "sentiment"
  /\ IF cfg.sentiment_enabled /\ it.sig \in {"BUY", "SELL"}
     THEN \E sent \in SentimentResults :
            /\ Failure(sent = None)
            /\ IF sent # None /\ sent < cfg.min_score
               THEN /\ write_log(<<Row("NO_ORDER", "sentiment_block",
                                       it.sig, None, "")>>)
                    /\ NextInstrument(run)
               ELSE /\ it' = [it EXCEPT !.sent = sent]
                    /\ pc' = "sizing"
                    /\ UNCHANGED <<ledger, run>>
     ELSE /\ pc' = "sizing"
          /\ UNCHANGED <<ledger, run, it, faults>>
  /\ UNCHANGED <<clock, files, cfg, watchlist, iters, brokerOrders, payloads, win, enrich, rec, other>>

SentimentGateOf(S) ==
  /\ pc = "sentiment"
  /\ IF cfg.sentiment_enabled /\ it.sig \in {"BUY", "SELL"}
     THEN \E sent \in S :
            /\ Failure(sent = None)
            /\ IF sent = None
               THEN /\ write_log(<<Row("NO_ORDER", "sentiment_unavailable",
                                       it.sig, None, "")>>)
                    /\ NextInstrument(run)
               ELSE IF sent < cfg.min_score
               THEN /\ write_log(<<Row("NO_ORDER", "sentiment_block",
                                       it.sig, None, "")>>)
                    /\ NextInstrument(run)
               ELSE /\ it' = [it EXCEPT !.sent = sent]
                    /\ pc' = "sizing"
                    /\ UNCHANGED <<ledger, run>>
     ELSE /\ pc' = "sizing"
          /\ UNCHANGED <<ledger, run, it, faults>>
  /\ UNCHANGED <<clock, files, cfg, watchlist, iters, brokerOrders, payloads, win, enrich, rec, other>>

SentimentGate == SentimentGateOf(SentimentResults)

\* (as a bug would have it: the requested risk taken for the effective)
Sizing_requested_risk ==
  /\ pc = "sizing"
  /\ LET size == sized_order(it.mk, cfg.risk_per_trade_gbp, it.stop_pts)
     IN  IF size = None
         THEN /\ write_log(<<Row("ERROR", "size_error", it.sig, None, "")>>)
              /\ NextInstrument(run)
         ELSE /\ it' = [it EXCEPT !.size = size,
                                  !.eff_risk = cfg.risk_per_trade_gbp]
              /\ pc' = "postsize"
              /\ UNCHANGED <<ledger, run>>
  /\ UNCHANGED <<clock, files, cfg, watchlist, iters, faults, brokerOrders, payloads, win, enrich, rec, other>>

Sizing ==
  /\ pc = "sizing"
  /\ LET size == sized_order(it.mk, cfg.risk_per_trade_gbp, it.stop_pts)
     IN  IF size = None
         THEN /\ write_log(<<Row("ERROR", "size_error", it.sig, None, "")>>)
              /\ NextInstrument(run)
         ELSE /\ it' = [it EXCEPT !.size = size,
                                  !.eff_risk = size * it.mk.vpp * it.stop_pts]
              /\ pc' = "postsize"
              /\ UNCHANGED <<ledger, run>>
  /\ UNCHANGED <<clock, files, cfg, watchlist, iters, faults, brokerOrders, payloads, win, enrich, rec, other>>

\* GET /session is asked only when the loss-limit check is reached.
Postsize ==
  /\ pc = "postsize"
  /\ \E me \in MeResponses \cup {MeNotAsked} :
       LET g == guard_postsize(cfg, ledger, clock, files, me, it.name,
                               it.eff_risk)
           asked == g.meta.pnl_baseline_gbp # Unset
       IN  /\ (me = MeNotAsked) <=> ~asked
           /\ Failure(me.kind \in {"err", "nobal"})
           /\ it' = [it EXCEPT !.g2_now = clock, !.g2_len = Len(ledger),
                               !.g2_files = files[Day(clock)],
                               !.g2_planned = it.eff_risk, !.me = me,
                               !.rg2 = [ok |-> g.ok, reason |-> g.reason,
                                        meta |-> g.meta]]
           /\ files' = g.files
  /\ pc' = "post_eval"
  /\ UNCHANGED <<clock, ledger, cfg, watchlist, iters, run, brokerOrders, payloads, win, enrich, rec, other>>

\* (as a bug would have it: the `continue` after a post-size block lost)
PostsizeBranch_no_continue ==
  /\ pc = "post_eval"
  /\ IF ~it.rg2.ok
     THEN /\ write_log(<<[Row("NO_ORDER", "risk_guard_post", it.sig,
                              fmt2f(it.eff_risk), "")
                            EXCEPT !.size_final = it.size]>>)
          /\ pc' = "place"
          /\ UNCHANGED <<run, it>>
     ELSE /\ pc' = "place"
          /\ UNCHANGED <<ledger, run, it>>
  /\ UNCHANGED <<clock, files, cfg, watchlist, iters, faults, brokerOrders, payloads, win, enrich, rec, other>>

PostsizeBranch ==
  /\ pc = "post_eval"
  /\ IF ~it.rg2.ok
     THEN /\ write_log(<<[Row("NO_ORDER", "risk_guard_post", it.sig,
                              fmt2f(it.eff_risk), "")
                            EXCEPT !.size_final = it.size]>>)
          /\ NextInstrument(run)
     ELSE /\ pc' = "place"
          /\ UNCHANGED <<ledger, run, it>>
  /\ UNCHANGED <<clock, files, cfg, watchlist, iters, faults, brokerOrders, payloads, win, enrich, rec, other>>

\* place_order and the row run_loop writes for its result
PlaceOrder ==
  /\ pc = "place"
  /\ \E resp \in (IF run.live THEN PlaceResponses ELSE {"none"}) :
       LET out == place_order(it.sig, it.size, it.stop_pts, run.live, resp)
           called == [run EXCEPT !.calls =
                        @ \o [i \in 1..out.calls |-> run.idx]]
       IN  /\ Failure(run.live /\ resp # "ref")
           /\ payloads' = payloads + 1
           /\ brokerOrders' = brokerOrders + out.calls
           /\ CASE out.kind = "dry" ->
                     /\ write_log(<<OrderRow("ORDER_DRY", "ok", out)>>)
                     /\ NextInstrument([called EXCEPT !.run_trade_count =
                                          IF cfg.count_dry_as_trade
                                          THEN @ + 1 ELSE @])
                [] out.kind = "ok" ->
                     /\ write_log(<<OrderRow("ORDER_SENT", "ok", out)>>)
                     /\ NextInstrument([called EXCEPT
                                          !.run_trade_count = @ + 1])
                [] out.kind = "fail" ->
                     /\ write_log(<<OrderRow("ORDER_FAIL", "http", out)>>)
                     /\ NextInstrument(called)
                [] out.kind = "raise" ->
                     \* not caught: run_loop and main end with the exception
                     /\ pc' = "idle"
                     /\ run' = RunBlank
                     /\ it' = ItBlank
                     /\ UNCHANGED ledger
  /\ UNCHANGED <<clock, files, cfg, watchlist, iters, win, enrich, rec, other>>

\* the end-of-run summary; run_loop returns, and main starts
\* confirm_and_enrich.py (without arguments) unless that step is off
EndRun ==
  /\ pc = "summary"
  /\ pc' = IF enrich THEN "enrich" ELSE "idle"
  /\ rec' = IF enrich THEN [rec EXCEPT !.parent = run.rid] ELSE rec
  /\ run' = RunBlank
  /\ it' = ItBlank
  /\ UNCHANGED <<clock, ledger, files, cfg, watchlist, iters, faults, brokerOrders, payloads, win, enrich, other>>

Next ==
  \/ Tick
  \/ StartRun
  \/ Preflight
  \/ PreflightBranch
  \/ FetchMarket
  \/ FetchPrices
  \/ SentimentGate
  \/ Sizing
  \/ Postsize
  \/ PostsizeBranch
  \/ PlaceOrder
  \/ EndRun

Spec == Init /\ [][Next]_vars

\* The same program under other configuration files.
SpecRun == Start({CfgRun, CfgRunNoDry}) /\ [][Next]_vars

SpecDay == Start({CfgCap, CfgCool}) /\ [][Next]_vars

SpecBudget == Start({CfgBudget, CfgBudgetOdd}) /\ [][Next]_vars

\* (the watchlist of two instruments)
SpecLoss ==
  Boot({CfgLoss}, FALSE, {w \in Watchlists : Len(w) = 2}) /\ [][Next]_vars

SpecFloor == Start({CfgFloor}) /\ [][Next]_vars

\* the guards switched off
SpecOff == Start({CfgOff}) /\ [][Next]_vars

\* in_trading_window on its own: every window of the day, every offset of
\* the local zone, every minute of the clock.
WindowConfigs ==
  {[CfgBase EXCEPT !.th_enabled = e, !.th_start = a, !.th_end = b,
                   !.th_tz = z] :
     e \in BOOLEAN, a \in 0..(DayLen - 1), b \in 0..(DayLen - 1),
     z \in 0..(DayLen - 1)}

InitWindow ==
  /\ clock \in 0..MaxClock
  /\ ledger = << >>
  /\ files = [d \in Days |-> None]
  /\ cfg \in WindowConfigs
  /\ watchlist \in Watchlists
  /\ iters = 0
  /\ pc = "idle"
  /\ run = RunBlank
  /\ it = ItBlank
  /\ faults = 0
  /\ brokerOrders = 0
  /\ payloads = 0
  /\ win = WinBlank
  /\ enrich = FALSE
  /\ rec = RecBlank
  /\ other = OtherBlank

EvalWindow ==
  /\ ~win.done
  /\ win' = [done |-> TRUE, ok |-> in_trading_window(cfg, clock)]
  /\ UNCHANGED <<clock, ledger, files, cfg, watchlist, iters, pc, run, it,
                 faults, brokerOrders, payloads, enrich, rec, other>>

NextWindow == EvalWindow

SpecWindow == InitWindow /\ [][NextWindow]_vars

\* sized_order on its own: run_loop about to size an order for a BUY or
\* SELL signal, over the dealing rules a market can have, the stop
\* distances of a watchlist item and the risk per trade of a configuration.
SizingRisks == {1, 5, 12, 50000}
SizingStops == {1, 2, 3, 60}
SizingVpps == {0, 1, 2, 10}
SizingSteps == {1, 2, 3, 500}
SizingMins == {1, 2, 4, 500}

InitSizing ==
  /\ clock = 0
  /\ files = [d \in Days |-> None]
  /\ \E risk \in SizingRisks : cfg = [CfgBase EXCEPT !.risk_per_trade_gbp = risk]
  /\ \E stop \in SizingStops, vpp \in SizingVpps, step \in SizingSteps,
        min_sz \in SizingMins, sig \in {"BUY", "SELL"} :
        /\ watchlist = << [name |-> "A", stop_points |-> stop] >>
        /\ it = [ItBlank EXCEPT
                   !.ts_utc = 0, !.name = "A", !.stop_pts = stop,
                   !.mk = [kind |-> "ok", vpp |-> vpp, min_sz |-> min_sz,
                           step |-> step, min_stop |-> 0],
                   !.sig = sig,
                   !.rg1 = guard_preflight(CfgBase, 0, NotAsked)]
        /\ ledger = << [ts_utc |-> 0, run_id |-> 0, name |-> "A",
                        signal |-> sig, event |-> "SIGNAL", status |-> "ok",
                        size_final |-> None, eff_risk_gbp |-> None,
                        dealReference |-> "", payload_json |-> NoPayload] >>
  /\ iters = 1
  /\ pc = "sizing"
  /\ run = [RunBlank EXCEPT !.rid = 0, !.idx = 1]
  /\ faults = 0
  /\ brokerOrders = 0
  /\ payloads = 0
  /\ win = WinBlank
  /\ enrich = FALSE
  /\ rec = RecBlank
  /\ other = OtherBlank

NextSizing == Sizing

SpecSizing == InitSizing /\ [][NextSizing]_vars

\* ------------------------------------------------------ the reconciler
\* confirm_and_enrich.py.  An instrument's epic is its name in the model.

\* trade_once.LOG_FIELDS: the header ensure_log writes
LOG_FIELDS ==
  <<"ts_utc", "run_id", "env", "live", "name", "epic", "resolution",
    "candle_count", "warmup_bars", "signal", "close", "sma20", "rsi14",
    "sentiment_label", "sentiment_score", "sentiment_reason",
    "rg_reason", "rg_meta_json", "rg2_reason", "rg2_meta_json",
    "risk_gbp", "stop_points", "limit_points", "value_per_point",
    "size_raw", "size_final", "eff_risk_gbp", "currency",
    "event", "status", "dealReference", "error", "payload_json">>

\* confirm_and_enrich.LOG_FIELDS: the columns write_log_row writes
LOG_FIELDS_enrich ==
  <<"ts_utc", "run_id", "env", "live", "name", "epic", "resolution",
    "candle_count", "warmup_bars", "signal", "close", "sma20", "rsi14",
    "risk_gbp", "stop_points", "limit_points", "value_per_point",
    "size_raw", "size_final", "eff_risk_gbp", "currency",
    "event", "status", "dealReference", "error", "payload_json">>

\* the columns of a ledger row the model keeps, and those of the header
\* that the reconciler's event, status and deal reference come to stand in
RowColumns ==
  {"ts_utc", "run_id", "name", "signal", "event", "status", "size_final",
   "eff_risk_gbp", "dealReference", "payload_json"}

ShiftColumns == {"stop_points", "limit_points", "value_per_point"}

ColumnOf(fields, k) == CHOOSE i \in 1..Len(fields) : fields[i] = k

\* a column the line has no cell for
Blank(k) ==
  IF k = "eff_risk_gbp" THEN None
  ELSE IF k = "payload_json" THEN NoPayload
  ELSE ""

\* csv.DictWriter(fieldnames=LOG_FIELDS).writerow of write_log_row: the
\* cells of the line, a key the row lacks written blank
RowCells(row) ==
  [i \in 1..Len(LOG_FIELDS_enrich) |->
     IF LOG_FIELDS_enrich[i] \in DOMAIN row THEN row[LOG_FIELDS_enrich[i]]
     ELSE ""]

\* csv.DictReader: the line read under the header of the ledger
DictReader(cells) ==
  [k \in RowColumns \cup ShiftColumns |->
     IF ColumnOf(LOG_FIELDS, k) <= Len(cells)
     THEN cells[ColumnOf(LOG_FIELDS, k)] ELSE Blank(k)]

\* (as a bug would have it: the file opened for writing, not appending)
write_log_row_truncating(row) == ledger' = <<DictReader(RowCells(row))>>

\* write_log_row: the line appended to the ledger file
write_log_row(row) == ledger' = Append(ledger, DictReader(RowCells(row)))

\* latest_run_id: the greatest run id of an ORDER_SENT row, or None
latest_run_id(rows) ==
  LET ids == {rows[i].run_id : i \in {j \in 1..Len(rows) :
                                        rows[j].event = "ORDER_SENT"}}
  IN  IF ids = {} THEN None
      ELSE CHOOSE m \in ids : \A x \in ids : x <= m

\* ig.confirms(deal_ref), one attempt: a body with a deal id, a body with
\* a deal status only, a body with neither, or an exception
Attempts == 6
ConfirmData(a) ==
  IF a = "id" THEN [dealId |-> "DC", dealStatus |-> "ACCEPTED", error |-> ""]
  ELSE IF a = "status"
  THEN [dealId |-> "", dealStatus |-> "REJECTED", error |-> ""]
  ELSE IF a = "empty"
  THEN [dealId |-> "", dealStatus |-> "", error |-> "unexpected_response"]
  ELSE [dealId |-> "", dealStatus |-> "", error |-> "Timeout"]

\* try_confirm from attempt n on: the first attempt that carries a deal id
\* or a deal status ends the polling; calls: the requests made
RECURSIVE try_confirm_from(_, _, _)
try_confirm_from(answers, n, attempts) ==
  IF n > attempts
  THEN [ok |-> FALSE,
        data |-> IF attempts = 0
                 THEN [dealId |-> "", dealStatus |-> "",
                       error |-> "confirm_failed"]
                 ELSE ConfirmData(answers[attempts]),
        calls |-> attempts]
  ELSE IF answers[n] \in {"id", "status"}
  THEN [ok |-> TRUE, data |-> ConfirmData(answers[n]), calls |-> n]
  ELSE try_confirm_from(answers, n + 1, attempts)

\* (as a bug would have it: any body that came back counts as success)
try_confirm_any_body(answers) ==
  LET got == {n \in 1..Attempts : answers[n] # "raise"}
  IN  IF got = {} THEN try_confirm_from(answers, 1, Attempts)
      ELSE LET n == CHOOSE m \in got : \A x \in got : m <= x
           IN  [ok |-> TRUE, data |-> ConfirmData(answers[n]), calls |-> n]

try_confirm(answers) == try_confirm_from(answers, 1, Attempts)

\* What ig.confirms does in the attempts for one order.  main() passes an
\* IGRest, and class IGRest defines no method confirms: every attempt
\* raises AttributeError.
ConfirmAnswers ==
  {[n \in 1..Attempts |-> "raise"]}

\* GET /positions as load_positions returns it, or an exception.  created
\* is createdDateUTC or createdDate as the broker wrote it: fmt "utc" an
\* ISO time without zone (createdDateUTC), "z" an ISO time with Z or an
\* offset, "local" createdDate's 2024/05/01 10:00:00:000, "none" no value;
\* t is the time it stands for.
NoPosition ==
  [dealId |-> "", epic |-> "", direction |-> "", size |-> None,
   created |-> [fmt |-> "none", t |-> None]]

\* the sort of pick_match raised TypeError
PickRaises == [NoPosition EXCEPT !.dealId = "TypeError"]

PositionsLists ==
  LET P(id, epic, direction, size, t) ==
        [dealId |-> id, epic |-> epic, direction |-> direction,
         size |-> size, created |-> [fmt |-> "utc", t |-> t]]
  IN  {<< >>,
       <<P("D3", "A", "SELL", 5, 1), P("D1", "A", "BUY", 5, 1),
         P("D4", "B", "BUY", 16, 1)>>,
       <<P("D2", "A", "BUY", 16, 2), P("D1", "A", "BUY", 5, 1)>>}

LoadPositions ==
  {[kind |-> "ok", list |-> l] : l \in PositionsLists}
    \cup {[kind |-> "raise", list |-> << >>]}

LoadNotAsked == [kind |-> "none", list |-> << >>]

Dist(a, b) == IF a >= b THEN a - b ELSE b - a

\* pick_match: the candidates share epic and direction.  With a size hint
\* they are sorted by abs((size or 0) - size_hint); without one by ts,
\* latest first, where ts parses created with datetime.fromisoformat and
\* takes datetime.min in UTC for what does not parse: an ISO time without
\* zone gives a naive datetime, and comparing a naive with an aware one
\* raises TypeError.  Both sorts are stable: of equals the first in the
\* list.  NoPosition for None.
pick_match(positions, epic, direction, size_hint) ==
  LET cands == {i \in 1..Len(positions) :
                  /\ positions[i].epic = epic
                  /\ positions[i].direction = direction}
      aware(i) == positions[i].created.fmt # "utc"
      ts(i) == IF positions[i].created.fmt \in {"utc", "z"}
               THEN positions[i].created.t ELSE None
      key(i) == IF size_hint # None
                THEN Dist(IF positions[i].size = None THEN 0
                          ELSE positions[i].size, size_hint)
                ELSE 0 - ts(i)
  IN  IF cands = {} THEN NoPosition
      ELSE IF size_hint = None
              /\ \E i \in cands, j \in cands : aware(i) # aware(j)
      THEN PickRaises
      ELSE positions[CHOOSE i \in cands :
                       \A j \in cands :
                         key(i) < key(j) \/ (key(i) = key(j) /\ i <= j)]

\* the pass is over: the process ends
EnrichReturn ==
  /\ pc' = "idle"
  /\ rec' = [RecBlank EXCEPT !.manual = rec.manual]

\* confirm_and_enrich.py started by hand, with --run-id or without (once
\* in a behaviour)
EnrichManual ==
  /\ pc = "idle"
  /\ ~rec.manual
  /\ \E arg \in {None} \cup {ledger[i].run_id : i \in 1..Len(ledger)} :
       rec' = [RecBlank EXCEPT !.arg = arg, !.manual = TRUE]
  /\ pc' = "enrich"
  /\ UNCHANGED <<clock, ledger, files, cfg, watchlist, iters, run, it, faults, brokerOrders, payloads, win, enrich, other>>

\* main up to the loop: the rows are read once, the run id is the one
\* given or the latest with an ORDER_SENT row, and the ORDER_SENT rows of
\* that run id are the ones to confirm
EnrichMain ==
  /\ pc = "enrich"
  /\ LET rows == ledger
         run_id == IF rec.arg # None THEN rec.arg ELSE latest_run_id(rows)
         sent == SelectSeq([i \in 1..Len(rows) |-> i],
                           LAMBDA i : /\ rows[i].event = "ORDER_SENT"
                                      /\ rows[i].run_id = run_id)
     IN  IF rows = << >> \/ run_id = None \/ sent = << >>
         THEN EnrichReturn
         ELSE /\ rec' = [rec EXCEPT !.rid = run_id, !.rows_len = Len(rows),
                                     !.sent = sent, !.k = 1]
              /\ pc' = "confirm"
  /\ UNCHANGED <<clock, ledger, files, cfg, watchlist, iters, run, it, faults, brokerOrders, payloads, win, enrich, other>>

\* the row write_log_row is given: base and the outcome's fields
ConfirmDict(r, event, status, payload) ==
  [ts_utc |-> clock, run_id |-> rec.rid, name |-> r.name,
   signal |-> r.signal, dealReference |-> r.dealReference,
   event |-> event, status |-> status, payload_json |-> payload]

\* The body of the loop over the ORDER_SENT rows after try_confirm
\* returned res, for the row r, the positions cache cache0 and the answer
\* lp of GET /positions should it be asked: on success the CONFIRM_OK row
\* and `continue`; else the open positions (asked once in a pass) and the
\* row of the match or of the failure.  raised: an exception of
\* ig.positions or of pick_match, caught nowhere.
confirm_round(r, res, cache0, lp) ==
  LET asked == ~res.ok /\ ~cache0.loaded
      cache == IF asked /\ lp.kind # "raise"
               THEN [loaded |-> TRUE, list |-> lp.list]
               ELSE cache0
      match == pick_match(cache.list, r.name, r.signal, r.size_final)
  IN  [asked |-> asked,
       raised |-> (asked /\ lp.kind = "raise")
                    \/ (~res.ok /\ match = PickRaises),
       cache |-> cache,
       row |-> IF res.ok
               THEN ConfirmDict(r, "CONFIRM_OK",
                      IF res.data.dealStatus # ""
                      THEN res.data.dealStatus ELSE "ok",
                      [dealId |-> res.data.dealId,
                       dealReference |-> r.dealReference])
               ELSE IF match # NoPosition
               THEN ConfirmDict(r, "CONFIRM_FALLBACK_OK",
                                "from_positions", match)
               ELSE ConfirmDict(r, "CONFIRM_FAIL", "not_found",
                                [confirm_error |-> res.data])]

\* One round of the loop over the ORDER_SENT rows: polling, and after it
\* failed the open positions.  An exception of ig.positions is not caught
\* and ends the process.
ConfirmOne ==
  /\ pc = "confirm"
  /\ \E answers \in ConfirmAnswers, lp \in LoadPositions \cup {LoadNotAsked} :
       LET res == try_confirm(answers)
           round == confirm_round(ledger[rec.sent[rec.k]], res, rec.cache, lp)
       IN  /\ (lp = LoadNotAsked) <=> ~round.asked
           /\ rec' = [rec EXCEPT
                        !.k = @ + 1, !.cache = round.cache,
                        !.last = [ok |-> res.ok, calls |-> res.calls,
                                  asked |-> round.asked,
                                  raised |-> round.raised]]
           /\ IF round.raised
              THEN /\ pc' = "enriched"
                   /\ UNCHANGED ledger
              ELSE /\ write_log_row(round.row)
                   /\ pc' = IF rec.k < Len(rec.sent) THEN "confirm"
                            ELSE "enriched"
  /\ UNCHANGED <<clock, files, cfg, watchlist, iters, run, it, faults, brokerOrders, payloads, win, enrich, other>>

\* the process of the reconciler ends
EnrichExit ==
  /\ pc = "enriched"
  /\ EnrichReturn
  /\ UNCHANGED <<clock, ledger, files, cfg, watchlist, iters, run, it, faults, brokerOrders, payloads, win, enrich, other>>

\* the pipeline with the post-run step
NextAuto ==
  \/ Next
  \/ EnrichMain
  \/ ConfirmOne
  \/ EnrichExit

\* and with the reconciler started by hand too
NextEnrich ==
  \/ NextAuto
  \/ EnrichManual

\* The post-run step on, and a broker and an oracle that fail no call of
\* the pipeline.
HealthyStart(W) ==
  /\ clock = 0
  /\ ledger = << >>
  /\ files = [d \in Days |-> None]
  /\ cfg = CfgBase
  /\ watchlist \in W
  /\ iters = 0
  /\ pc = "idle"
  /\ run = RunBlank
  /\ it = ItBlank
  /\ faults = MaxFaults
  /\ brokerOrders = 0
  /\ payloads = 0
  /\ win = WinBlank
  /\ enrich = TRUE
  /\ rec = RecBlank
  /\ other = OtherBlank

\* runs of one instrument, each followed by its reconciliation
SpecAuto ==
  HealthyStart({w \in Watchlists : Len(w) = 1}) /\ [][NextAuto]_vars

\* a run of two instruments, its reconciliation, and one by hand
SpecEnrich ==
  HealthyStart({w \in Watchlists : Len(w) = 2}) /\ [][NextEnrich]_vars

\* ------------------------------------------- the live safety prompt
\* An answer is the sequence of the characters typed.
\* str.strip(): the whitespace at both ends removed
RECURSIVE strip(_)
strip(s) ==
  IF s # << >> /\ Head(s) = " " THEN strip(Tail(s))
  ELSE IF s # << >> /\ s[Len(s)] = " " THEN strip(SubSeq(s, 1, Len(s) - 1))
  ELSE s

\* str.upper()
upper(s) ==
  [k \in 1..Len(s) |->
     CASE s[k] = "l" -> "L" [] s[k] = "i" -> "I" [] s[k] = "v" -> "V"
       [] s[k] = "e" -> "E" [] s[k] = "y" -> "Y" [] s[k] = "s" -> "S"
       [] OTHER -> s[k]]

LIVE == <<"L", "I", "V", "E">>

\* what the operator types at "Type LIVE to confirm sending orders: "
Answers ==
  {LIVE, <<" ", "l", "i", "v", "e", " ">>, <<"L", "I", "V", "E", "!">>,
   <<"y", "e", "s">>, << >>}

\* the prompt does not end the process (for comparison)
main_no_exit ==
  /\ pc = "idle"
  /\ iters < MaxIters
  /\ \E live \in BOOLEAN, answer \in Answers :
       LET ack == strip(answer)
       IN  /\ live \/ answer = << >>
           /\ run' = [RunBlank EXCEPT !.rid = clock, !.live = live,
                                      !.idx = 1, !.startLen = Len(ledger),
                                      !.ack = answer]
           /\ it' = ItBlank
           /\ pc' = IF Len(watchlist) = 0 THEN "summary" ELSE "preflight"
  /\ UNCHANGED <<clock, ledger, files, cfg, watchlist, iters, faults, brokerOrders, payloads, win, enrich, rec, other>>

\* main() up to run_loop, with the answer typed: with --live the answer
\* is read, stripped and compared in upper case with LIVE; sys.exit(1)
\* ends the process before the credentials are read and the session is
\* opened.  run keeps the flag and the answer of the process that ended.
main ==
  /\ pc = "idle"
  /\ iters < MaxIters
  /\ \E live \in BOOLEAN, answer \in Answers :
       LET ack == strip(answer)
       IN  /\ live \/ answer = << >>
           /\ IF live /\ upper(ack) # LIVE
              THEN /\ run' = [RunBlank EXCEPT !.live = TRUE, !.ack = answer]
                   /\ UNCHANGED <<pc, it>>
              ELSE /\ run' = [RunBlank EXCEPT !.rid = clock, !.live = live,
                                              !.idx = 1,
                                              !.startLen = Len(ledger),
                                              !.ack = answer]
                   /\ it' = ItBlank
                   /\ pc' = IF Len(watchlist) = 0 THEN "summary"
                            ELSE "preflight"
  /\ UNCHANGED <<clock, ledger, files, cfg, watchlist, iters, faults, brokerOrders, payloads, win, enrich, rec, other>>

NextPrompt ==
  \/ Tick
  \/ main
  \/ Preflight
  \/ PreflightBranch
  \/ FetchMarket
  \/ FetchPrices
  \/ SentimentGate
  \/ Sizing
  \/ Postsize
  \/ PostsizeBranch
  \/ PlaceOrder
  \/ EndRun

\* runs of one instrument started with the answer typed
SpecPrompt ==
  Boot({CfgBase}, FALSE, {w \in Watchlists : Len(w) = 1})
    /\ [][NextPrompt]_vars

\* ------------------------------------------- every guard at a time
\* Every check of the two guards configured: one trade a run and one open
\* position; trading hours of minutes 0 and 1 of the UTC day; one order a
\* day and instrument (two in the second configuration), a cooldown of two
\* minutes, a budget A's effective risk 10 fits in once, a loss limit of 3.
CfgChain ==
  [CfgBase EXCEPT !.max_trades_per_run = 1, !.max_concurrent_positions = 1,
                  !.th_enabled = TRUE, !.th_start = 0, !.th_end = 1,
                  !.max_trades_per_day = 1, !.cooldown_min = 2,
                  !.daily_risk_budget_gbp = 10, !.daily_loss_limit_gbp = 3]

\* (every answer of the broker a good one)
InitChain ==
  /\ clock = 0
  /\ ledger = << >>
  /\ files = [d \in Days |-> None]
  /\ cfg \in {CfgChain, [CfgChain EXCEPT !.max_trades_per_day = 2]}
  /\ watchlist \in Watchlists
  /\ iters = 0
  /\ pc = "idle"
  /\ run = RunBlank
  /\ it = ItBlank
  /\ faults = MaxFaults
  /\ brokerOrders = 0
  /\ payloads = 0
  /\ win = WinBlank
  /\ enrich = FALSE
  /\ rec = RecBlank
  /\ other = OtherBlank
SpecChain == InitChain /\ [][Next]_vars

\* ------------------------------------------------ two runs at a time
\* Two processes of trade_once.py on the same ledger and baseline files.
\* pc, run and it are those of the process that takes the next step; other
\* holds those of the process that waits.  The processes interleave
\* between any two steps: between the evaluation of guard_postsize and the
\* append of the order row there is nothing that excludes the other one.
Switch ==
  /\ other.pc # "off"
  /\ other' = [pc |-> pc, run |-> run, it |-> it]
  /\ pc' = other.pc
  /\ run' = other.run
  /\ it' = other.it
  /\ UNCHANGED <<clock, ledger, files, cfg, watchlist, iters, faults, brokerOrders, payloads, win, enrich, rec>>

\* a budget A's effective risk 10 fits in once, and one order a day
CfgRace ==
  [CfgBase EXCEPT !.daily_risk_budget_gbp = 10, !.max_trades_per_day = 1]

InitRace ==
  /\ clock = 0
  /\ ledger = << >>
  /\ files = [d \in Days |-> None]
  /\ cfg = CfgRace
  /\ watchlist = << [name |-> "A", stop_points |-> 1] >>
  /\ iters = 0
  /\ pc = "idle"
  /\ run = RunBlank
  /\ it = ItBlank
  /\ faults = MaxFaults
  /\ brokerOrders = 0
  /\ payloads = 0
  /\ win = WinBlank
  /\ enrich = FALSE
  /\ rec = RecBlank
  /\ other = [pc |-> "idle", run |-> RunBlank, it |-> ItBlank]

\* (the clock stands still: the two runs are started together)
NextRace ==
  \/ StartRun
  \/ Preflight
  \/ PreflightBranch
  \/ FetchMarket
  \/ FetchPrices
  \/ SentimentGate
  \/ Sizing
  \/ Postsize
  \/ PostsizeBranch
  \/ PlaceOrder
  \/ EndRun
  \/ Switch

SpecRace == InitRace /\ [][NextRace]_vars

\* ------------------------------------------------ the sentiment client
\* sentiment_client.py.  Scores are in hundredths.  A float is a number,
\* NaN or an infinity.
Num(v) == [kind |-> "num", v |-> v]

\* x < y on floats: no comparison with NaN holds
Less(x, y) ==
  IF x.kind = "nan" \/ y.kind = "nan" THEN FALSE
  ELSE IF x.kind = "ninf" THEN y.kind # "ninf"
  ELSE IF x.kind = "inf" THEN FALSE
  ELSE IF y.kind = "inf" THEN TRUE
  ELSE IF y.kind = "ninf" THEN FALSE
  ELSE x.v < y.v

\* Python's min(a, b) and max(a, b): the first argument unless the second
\* is smaller (greater)
py_min(a, b) == IF Less(b, a) THEN b ELSE a
py_max(a, b) == IF Less(a, b) THEN b ELSE a

\* float(data.get("score", 0.0)): a number, a numeric string, a constant
\* NaN / Infinity / -Infinity of the JSON text; anything else raises
ScoreRaises(score) == score.kind \in {"text", "null", "list"}
to_float(score) ==
  CASE score.kind = "missing" -> Num(0)
    [] score.kind \in {"num", "str"} -> Num(score.v)
    [] OTHER -> [kind |-> score.kind, v |-> 0]

\* str(data.get("label", "neutral")).lower()
label_lower(label) ==
  CASE label = "missing" -> "neutral"
    [] label = "Bullish" -> "bullish"
    [] label = "BEARISH" -> "bearish"
    [] label = "null" -> "none"
    [] OTHER -> label

Labels == {"bullish", "bearish", "neutral"}

Unavailable == [ok |-> FALSE, label |-> "", score |-> None]

\* the replies that end in the except clause, and a missing key
ReplyFails == {"nokey", "raise", "http", "notjson", "nochoices",
               "badcontent", "nondict"}

\* (as a bug would have it: the score is not clamped)
get_sentiment_unclamped(reply) ==
  IF reply.kind \in ReplyFails \/ ScoreRaises(reply.score) THEN Unavailable
  ELSE LET label == label_lower(reply.label)
           score == to_float(reply.score)
       IN  [ok |-> TRUE,
            label |-> IF label \in Labels THEN label ELSE "neutral",
            score |-> IF score.kind = "num" THEN score.v
                      ELSE py_max(Num(0), py_min(Num(100), score)).v]

\* (as a bug would have it: a bearish label counts as no score)
get_sentiment_bearish_zero(reply) ==
  IF reply.kind \in ReplyFails \/ ScoreRaises(reply.score) THEN Unavailable
  ELSE LET label == label_lower(reply.label)
           score == to_float(reply.score)
       IN  [ok |-> TRUE,
            label |-> IF label \in Labels THEN label ELSE "neutral",
            score |-> IF label = "bearish" THEN 0
                      ELSE py_max(Num(0), py_min(Num(100), score)).v]

\* get_sentiment_for_price_action, by what the endpoint did
get_sentiment_for_price_action(reply) ==
  IF reply.kind = "nokey" THEN Unavailable
  ELSE IF reply.kind \in ReplyFails THEN Unavailable
  ELSE IF ScoreRaises(reply.score) THEN Unavailable
  ELSE LET label == label_lower(reply.label)
           score == to_float(reply.score)
       IN  [ok |-> TRUE,
            label |-> IF label \in Labels THEN label ELSE "neutral",
            score |-> py_max(Num(0), py_min(Num(100), score)).v]

\* what the endpoint can do: no key, an exception of the request, an HTTP
\* error, a body that is not the expected JSON, a content that is no JSON
\* or no object, and an object with any label and score
Replies ==
  {[kind |-> k, label |-> "", score |-> [kind |-> "missing", v |-> 0]] :
     k \in ReplyFails}
  \cup {[kind |-> "dict", label |-> l, score |-> sc] :
          l \in {"bullish", "bearish", "neutral", "Bullish", "BEARISH",
                 "strong buy", "null", "missing"},
          sc \in {[kind |-> "num", v |-> v] :
                    v \in {0 - 50, 0, 10, 15, 20, 100, 150}}
                 \cup {[kind |-> "str", v |-> 70]}
                 \cup {[kind |-> k, v |-> 0] :
                         k \in {"missing", "null", "text", "list", "nan",
                                "inf", "ninf"}}}

\* run_loop about to ask for the sentiment of a BUY or SELL signal
InitSentiment ==
  /\ clock = 0
  /\ files = [d \in Days |-> None]
  /\ cfg = [CfgBase EXCEPT !.sentiment_enabled = TRUE]
  /\ watchlist = << [name |-> "A", stop_points |-> 1] >>
  /\ iters = MaxIters
  /\ pc = "sentiment"
  /\ run = [RunBlank EXCEPT !.rid = 0, !.idx = 1]
  /\ \E reply \in Replies, sig \in {"BUY", "SELL"} :
       /\ it = [ItBlank EXCEPT
                  !.ts_utc = 0, !.name = "A", !.stop_pts = 2,
                  !.mk = [kind |-> "ok", vpp |-> 1, min_sz |-> 5,
                          step |-> 5, min_stop |-> 2],
                  !.sig = sig, !.reply = reply,
                  !.rg1 = guard_preflight(CfgBase, 0, NotAsked)]
       /\ ledger = << [ts_utc |-> 0, run_id |-> 0, name |-> "A",
                       signal |-> sig, event |-> "SIGNAL", status |-> "ok",
                       size_final |-> None, eff_risk_gbp |-> None,
                       dealReference |-> "", payload_json |-> NoPayload] >>
  /\ faults = 0
  /\ brokerOrders = 0
  /\ payloads = 0
  /\ win = WinBlank
  /\ enrich = FALSE
  /\ rec = RecBlank
  /\ other = OtherBlank

\* the reply is the one of the iteration
NextSentiment ==
  \/ LET sent == get_sentiment_for_price_action(it.reply)
     IN  SentimentGateOf({IF sent.ok THEN sent.score ELSE None})
  \/ Sizing
  \/ Postsize
  \/ PostsizeBranch
  \/ PlaceOrder
  \/ EndRun

SpecSentiment == InitSentiment /\ [][NextSentiment]_vars

\* ------------------------------------------- the signal on its own
\* run_loop about to fetch the bars of an instrument, over the bars the
\* broker can return and the thresholds a configuration can have.
BarCounts == {1, 5, 14, 15, 19, 20, 21, 25, 30}
Shapes == {"up", "down", "flat", "zig", "climb", "slide"}

\* the steps of a climb: three gains of 2 and four losses of 1
Climb(k) == 2 * (k \div 7) + <<0, 2, 4, 6, 5, 4, 3>>[(k % 7) + 1]

\* the close of bar k
Close(shape, k) ==
  CASE shape = "up" -> 100 + k
    [] shape = "down" -> 200 - k
    [] shape = "flat" -> 100
    [] shape = "zig" -> 100 + 2 * (k % 2)
    [] shape = "climb" -> 100 + Climb(k)
    [] shape = "slide" -> 200 - Climb(k)

Bars(n, shape) == [k \in 1..n |-> Close(shape, k)]

\* frames given by their last bar: the examples of the rule and their
\* neighbours, and undefined indicators
Snapshots ==
  {[kind |-> "ok", n |-> 30, close |-> c, sma20 |-> 5490, rsi14 |-> r] :
     c \in {5480, 5490, 5500}, r \in {40, 44, 45, 46, 49, 50, 54, 55, 56, 58}}
  \cup {[kind |-> "ok", n |-> 30, close |-> 18510, sma20 |-> 18500, rsi14 |-> 49],
        [kind |-> "ok", n |-> 30, close |-> 5500, sma20 |-> None, rsi14 |-> 58],
        [kind |-> "ok", n |-> 30, close |-> 5500, sma20 |-> 5490, rsi14 |-> None]}

SignalFrames ==
  PricesResponses \cup Snapshots
  \cup {Frame(Bars(n, shape)) : n \in BarCounts, shape \in Shapes}

SignalConfigs ==
  {[CfgBase EXCEPT !.sentiment_enabled = TRUE, !.rsi_buy_min = t[1],
                   !.rsi_sell_max = t[2], !.warmup_bars = w] :
     t \in {<<55, 45>>, <<50, 50>>, <<58, 49>>, <<45, 55>>},
     w \in {15, 20, 31}}

InitSignal ==
  /\ clock = 0
  /\ ledger = << >>
  /\ files = [d \in Days |-> None]
  /\ cfg \in SignalConfigs
  /\ watchlist = << [name |-> "A", stop_points |-> 1] >>
  /\ iters = MaxIters
  /\ pc = "prices"
  /\ \E live \in BOOLEAN :
       run = [RunBlank EXCEPT !.rid = 0, !.live = live, !.idx = 1]
  /\ \E df \in SignalFrames :
       it = [ItBlank EXCEPT
               !.ts_utc = 0, !.name = "A", !.stop_pts = 2,
               !.mk = [kind |-> "ok", vpp |-> 1, min_sz |-> 5, step |-> 5,
                       min_stop |-> 2],
               !.df = df,
               !.rg1 = guard_preflight(CfgBase, 0, NotAsked)]
  /\ faults = 0
  /\ brokerOrders = 0
  /\ payloads = 0
  /\ win = WinBlank
  /\ enrich = FALSE
  /\ rec = RecBlank
  /\ other = OtherBlank

\* the bars are the ones of the iteration
NextSignal ==
  \/ FetchPricesOf({it.df})
  \/ SentimentGate
  \/ Sizing
  \/ Postsize
  \/ PostsizeBranch
  \/ PlaceOrder
  \/ EndRun

SpecSignal == InitSignal /\ [][NextSignal]_vars

\* ------------------------------------------- rows of every writer
\* Runs of two instruments with a broker that can fail a call, each run
\* followed by its reconciliation: the ledger receives rows of the
\* pipeline and of the reconciler, on either side of midnight.
SpecLedger ==
  Boot({CfgBase}, TRUE, {w \in Watchlists : Len(w) = 2}) /\ [][NextAuto]_vars

\* ------------------------------------------- polling on its own
\* rest_confirm.py.  Delays are in tenths of a second.
delays == <<5, 10, 20, 30, 40, 50>>

\* confirm_with_retry from a round on.  answers: what GET /confirms does
\* at each request in turn ("200": a JSON body, "200raw": a body that is
\* no JSON, "404", "500", "exc": the request raises); versions: the API
\* versions requested so far; slept: the delays slept so far.  A round
\* asks version 1 and then version 2 (the `continue` after a 404 of
\* version 1 and the end of the loop body both go on to version 2); a 200
\* ends the polling and an exception of the request is not caught.  After
\* the rounds one more request is made with version 2, and
\* raise_for_status or r.json() raise on anything but a JSON body.
RECURSIVE confirm_rounds(_, _, _, _)
confirm_rounds(answers, rounds, versions, slept) ==
  LET i == Len(slept)
      r1 == answers[Len(versions) + 1]
      r2 == answers[Len(versions) + 2]
      Out(kind, vs, final) ==
        [out |-> kind, versions |-> versions \o vs, slept |-> slept,
         final |-> final]
  IN  IF i >= rounds
      THEN Out(IF r1 = "200" THEN "json" ELSE "raise", <<"2">>, 1)
      ELSE IF r1 = "exc" THEN Out("raise", <<"1">>, 0)
      ELSE IF r1 = "200" THEN Out("json", <<"1">>, 0)
      ELSE IF r1 = "200raw" THEN Out("raw", <<"1">>, 0)
      ELSE IF r2 = "exc" THEN Out("raise", <<"1", "2">>, 0)
      ELSE IF r2 = "200" THEN Out("json", <<"1", "2">>, 0)
      ELSE IF r2 = "200raw" THEN Out("raw", <<"1", "2">>, 0)
      ELSE confirm_rounds(answers, rounds, versions \o <<"1", "2">>,
                          Append(slept, delays[i + 1]))

\* (as a bug would have it: the rounds not bounded by attempts)
confirm_with_retry_every_delay(answers, attempts) ==
  confirm_rounds(answers, Len(delays), << >>, << >>)

\* for i in range(min(attempts, len(delays)))
confirm_with_retry(answers, attempts) ==
  confirm_rounds(answers,
                 IF attempts < Len(delays) THEN attempts ELSE Len(delays),
                 << >>, << >>)

\* A polling about to start, over the number of attempts and over what
\* the endpoint does: every request fails in the same way but at most
\* one, which succeeds or (for confirm_with_retry) raises.
InitConfirm ==
  /\ clock = 0
  /\ ledger = << >>
  /\ files = [d \in Days |-> None]
  /\ cfg = CfgBase
  /\ watchlist \in Watchlists
  /\ iters = 0
  /\ pc = "poll"
  /\ run = RunBlank
  /\ it = ItBlank
  /\ faults = 0
  /\ brokerOrders = 0
  /\ payloads = 0
  /\ win = WinBlank
  /\ enrich = FALSE
  /\ other = OtherBlank
  /\ \E attempts \in 0..(Attempts + 2), p \in 0..(2 * Len(delays) + 1) :
       \/ \E a \in {"id", "status"}, f \in {"empty", "raise"} :
            rec = [RecBlank EXCEPT !.poll =
                     [fn |-> "try_confirm", attempts |-> attempts,
                      answers |-> [n \in 1..(Attempts + 2) |->
                                     IF n = p THEN a ELSE f],
                      out |-> << >>]]
       \/ \E a \in {"200", "200raw", "exc"}, f \in {"404", "500"} :
            rec = [RecBlank EXCEPT !.poll =
                     [fn |-> "confirm_with_retry", attempts |-> attempts,
                      answers |-> [n \in 1..(2 * Len(delays) + 1) |->
                                     IF n = p THEN a ELSE f],
                      out |-> << >>]]

\* try_confirm(ig, deal_ref, attempts)
PollTryConfirm ==
  /\ pc = "poll"
  /\ rec.poll.fn = "try_confirm"
  /\ rec' = [rec EXCEPT !.poll.out =
               try_confirm_from(rec.poll.answers, 1, rec.poll.attempts)]
  /\ pc' = "polled"
  /\ UNCHANGED <<clock, ledger, files, cfg, watchlist, iters, run, it, faults, brokerOrders, payloads, win, enrich, other>>

\* confirm_with_retry(base, h, deal_ref, attempts)
PollConfirmWithRetry ==
  /\ pc = "poll"
  /\ rec.poll.fn = "confirm_with_retry"
  /\ rec' = [rec EXCEPT !.poll.out =
               confirm_with_retry(rec.poll.answers, rec.poll.attempts)]
  /\ pc' = "polled"
  /\ UNCHANGED <<clock, ledger, files, cfg, watchlist, iters, run, it, faults, brokerOrders, payloads, win, enrich, other>>

NextConfirm ==
  \/ PollTryConfirm
  \/ PollConfirmWithRetry

SpecConfirm == InitConfirm /\ [][NextConfirm]_vars

\* ------------------------------------------- matching on its own
\* pick_match about to be called for an ORDER_SENT row of A, over lists of
\* up to two open positions of either size and every way the broker
\* writes a creation time, next to positions of the other direction and
\* of another epic, and over the size hints (None: size_final did not
\* parse).
InitPick ==
  /\ clock = 0
  /\ ledger = << >>
  /\ files = [d \in Days |-> None]
  /\ cfg = CfgBase
  /\ watchlist \in Watchlists
  /\ iters = 0
  /\ pc = "pick"
  /\ run = RunBlank
  /\ it = ItBlank
  /\ faults = 0
  /\ brokerOrders = 0
  /\ payloads = 0
  /\ win = WinBlank
  /\ enrich = FALSE
  /\ other = OtherBlank
  /\ LET Open ==
           {[dealId |-> "D", epic |-> "A", direction |-> "BUY",
             size |-> s, created |-> c] :
              s \in {5, 16},
              c \in {[fmt |-> "utc", t |-> 1], [fmt |-> "utc", t |-> 2],
                     [fmt |-> "z", t |-> 2], [fmt |-> "local", t |-> 3],
                     [fmt |-> "none", t |-> None]}}
           \cup {[dealId |-> "D", epic |-> e, direction |-> d,
                  size |-> 5, created |-> [fmt |-> "utc", t |-> 1]] :
                   e \in {"A", "B"}, d \in {"BUY", "SELL"}}
     IN  \E positions \in {<< >>} \cup {<<a>> : a \in Open}
                            \cup {<<a, b>> : a \in Open, b \in Open},
            direction \in {"BUY", "SELL"}, size_hint \in {None, 5, 10, 16} :
           rec = [RecBlank EXCEPT !.pick =
                    [positions |-> positions, epic |-> "A",
                     direction |-> direction, size_hint |-> size_hint,
                     out |-> << >>]]

PickMatch ==
  /\ pc = "pick"
  /\ rec' = [rec EXCEPT !.pick.out =
               pick_match(rec.pick.positions, rec.pick.epic,
                          rec.pick.direction, rec.pick.size_hint)]
  /\ pc' = "picked"
  /\ UNCHANGED <<clock, ledger, files, cfg, watchlist, iters, run, it, faults, brokerOrders, payloads, win, enrich, other>>

SpecPick == InitPick /\ [][PickMatch]_vars

\* ====================================================== properties
\* The ledger as the last guard_postsize read it, and that read's clock.
Seen == SubSeq(ledger, 1, it.g2_len)

IsOrderRow(r) == r.event = "ORDER_SENT" \/ r.event = "ORDER_DRY"

\* sum of eff_risk_gbp over the order rows of log dated day d
RECURSIVE RiskOn(_, _)
RiskOn(log, d) ==
  IF log = << >> THEN 0
  ELSE (IF IsOrderRow(Head(log)) /\ Head(log).ts_utc \div DayLen = d
        THEN Head(log).eff_risk_gbp ELSE 0) + RiskOn(Tail(log), d)

\* number of order rows of log for instrument n dated day d
CountOn(log, n, d) ==
  Cardinality({i \in 1..Len(log) :
                 /\ IsOrderRow(log[i]) /\ log[i].name = n
                 /\ log[i].ts_utc \div DayLen = d})

Evaluated2 == pc = "post_eval" /\ cfg.enabled

\* ---------------------------------------------------------------- C1
OrderEvents == {"ORDER_DRY", "ORDER_SENT", "ORDER_FAIL"}

C1_Gated ==
  /\ it.rg1.ok
  /\ it.sig \in {"BUY", "SELL"}
  /\ cfg.sentiment_enabled => (it.sent # Unset /\ it.sent >= cfg.min_score)
  /\ it.size # None
  /\ it.rg2.ok

\* C1: a step of run_loop appends an ORDER_DRY, ORDER_SENT or ORDER_FAIL
\* row, builds an order payload or calls the broker's order endpoint only
\* if, in the iteration it belongs to, the preflight guard allowed, the
\* signal was BUY or SELL, the sentiment gate (when enabled) passed, sizing
\* succeeded and the postsize guard allowed; the row is for the
\* iteration's instrument.
C1_OrderOnlyAfterGates ==
  [][ ( \/ \E i \in (Len(ledger) + 1)..Len(ledger') :
              ledger'[i].event \in OrderEvents
        \/ payloads' # payloads
        \/ brokerOrders' # brokerOrders )
      => ( /\ C1_Gated
           /\ \A i \in (Len(ledger) + 1)..Len(ledger') :
                ledger'[i].name = it.name ) ]_vars

C1_Witness ==
  /\ ledger # << >>
  /\ ledger[Len(ledger)].event = "ORDER_SENT"
  /\ cfg.sentiment_enabled /\ cfg.enabled
  /\ brokerOrders = 1

\* ---------------------------------------------------------------- C2
C2_EarlierReasons ==
  {"BLOCK_TRADING_WINDOW", "BLOCK_MAX_TRADES_PER_DAY_INSTRUMENT",
   "BLOCK_COOLDOWN_INSTRUMENT"}

C2_ExampleRow ==
  [ts_utc |-> 0, run_id |-> 0, name |-> "B", signal |-> "BUY",
   event |-> "ORDER_SENT", status |-> "ok", size_final |-> None,
   eff_risk_gbp |-> 80000, dealReference |-> "REF",
   payload_json |-> NoPayload]

\* C2: with guards enabled and a daily risk budget B > 0, guard_postsize
\* answers BLOCK_DAILY_RISK_BUDGET whenever the effective risk of today's
\* ORDER_SENT / ORDER_DRY rows of all instruments plus the planned risk
\* exceeds B and no earlier check blocked, and never otherwise; budget
\* 100, committed 80, planned 25 blocks.
C2_BudgetBlock ==
  /\ (Evaluated2 /\ cfg.daily_risk_budget_gbp > 0) =>
       LET over == RiskOn(Seen, it.g2_now \div DayLen) + it.eff_risk
                     > cfg.daily_risk_budget_gbp
       IN  /\ (over /\ it.rg2.reason \notin C2_EarlierReasons)
                => it.rg2.reason = "BLOCK_DAILY_RISK_BUDGET"
           /\ it.rg2.reason = "BLOCK_DAILY_RISK_BUDGET" => over
  /\ guard_postsize([CfgBase EXCEPT !.daily_risk_budget_gbp = 100000],
                    <<C2_ExampleRow>>, 1, [d \in Days |-> None], MeNotAsked,
                    "A", 25000).reason = "BLOCK_DAILY_RISK_BUDGET"

\* blocked on the budget by the risk another instrument committed
C2_Witness ==
  /\ Evaluated2
  /\ it.rg2.reason = "BLOCK_DAILY_RISK_BUDGET"
  /\ \E i \in 1..Len(Seen) : IsOrderRow(Seen[i]) /\ Seen[i].name # it.name

\* ---------------------------------------------------------------- C3
\* C3: while every run so far lies within one UTC day, guards enabled and
\* a daily risk budget B > 0, the eff_risk_gbp of that day's ORDER_SENT
\* and ORDER_DRY rows sums to at most B.
C3_CommittedWithinBudget ==
  (cfg.enabled /\ cfg.daily_risk_budget_gbp > 0 /\ clock < DayLen)
    => RiskOn(ledger, 0) <= cfg.daily_risk_budget_gbp

\* ---------------------------------------------------------------- C4
C4_Counted ==
  Cardinality({i \in (run.startLen + 1)..Len(ledger) :
                 \/ ledger[i].event = "ORDER_SENT"
                 \/ cfg.count_dry_as_trade /\ ledger[i].event = "ORDER_DRY"})

\* C4: in a run with guards enabled and max_trades_per_run = N > 0, the
\* ORDER_SENT rows plus (when count_dry_as_trade) the ORDER_DRY rows the
\* run has appended number at most N, and the run's trade counter equals
\* that number (so no other outcome moves it).
C4_RunCap ==
  (pc # "idle" /\ cfg.enabled /\ cfg.max_trades_per_run > 0)
    => /\ C4_Counted <= cfg.max_trades_per_run
       /\ run.run_trade_count = C4_Counted

\* the cap reached, and the run's next instrument stopped by it
C4_Witness ==
  /\ pc = "summary" /\ cfg.enabled
  /\ cfg.max_trades_per_run = 1 /\ cfg.max_concurrent_positions = 0
  /\ C4_Counted = 1
  /\ ledger[Len(ledger)].status = "risk_guard_pre"

\* ---------------------------------------------------------------- C5
\* C5: with guards enabled and per_instrument.max_trades_per_day = M > 0
\* the ledger never holds more than M ORDER_SENT / ORDER_DRY rows of one
\* instrument dated the same UTC day.
C5_DailyCap ==
  (cfg.enabled /\ cfg.max_trades_per_day > 0)
    => \A n \in {"A", "B"}, d \in Days :
         CountOn(ledger, n, d) <= cfg.max_trades_per_day

\* ---------------------------------------------------------------- C6
\* the time of the instrument's most recent order row, of any day
C6_LastOrder ==
  LET ts == {Seen[i].ts_utc : i \in {j \in 1..Len(Seen) :
                IsOrderRow(Seen[j]) /\ Seen[j].name = it.name}}
  IN  IF ts = {} THEN None ELSE CHOOSE t \in ts : \A u \in ts : u <= t

\* C6: with cooldown_min = C > 0 and the instrument's most recent order
\* row at time T, guard_postsize answers BLOCK_COOLDOWN_INSTRUMENT whenever
\* now < T + C (and no earlier check blocked), and never once now >= T + C.
C6_Cooldown ==
  (Evaluated2 /\ cfg.cooldown_min > 0 /\ C6_LastOrder # None) =>
    /\ ( /\ it.g2_now < C6_LastOrder + cfg.cooldown_min
         /\ it.rg2.reason \notin {"BLOCK_TRADING_WINDOW",
                                  "BLOCK_MAX_TRADES_PER_DAY_INSTRUMENT"} )
         => it.rg2.reason = "BLOCK_COOLDOWN_INSTRUMENT"
    /\ it.g2_now >= C6_LastOrder + cfg.cooldown_min
         => it.rg2.reason # "BLOCK_COOLDOWN_INSTRUMENT"

\* ---------------------------------------------------------------- C7
\* the minutes of the day a window from a to b holds
C7_Minutes(a, b) ==
  IF b >= a THEN a..b ELSE (a..(DayLen - 1)) \cup (0..b)

\* C7: in_trading_window holds at a local minute of the day exactly when
\* trading hours are disabled or the minute lies in the window, a window
\* whose end is before its start running over midnight; for 22:00-06:00,
\* 23:30 is inside and 12:00 is outside.
C7_WrapAware ==
  /\ win.done =>
       (win.ok <=> ( \/ ~cfg.th_enabled
                     \/ ((clock + cfg.th_tz) % DayLen)
                          \in C7_Minutes(cfg.th_start, cfg.th_end) ))
  /\ window_ok(23 * 60 + 30, 22 * 60, 6 * 60)
  /\ ~window_ok(12 * 60, 22 * 60, 6 * 60)

\* inside a window that spans midnight, in its part after midnight
C7_Witness ==
  /\ win.done /\ win.ok /\ cfg.th_enabled
  /\ cfg.th_end < cfg.th_start
  /\ ((clock + cfg.th_tz) % DayLen) <= cfg.th_end

\* ---------------------------------------------------------------- C8
\* the day's baseline as the evaluation found or made it
C8_Baseline ==
  IF it.g2_files = None THEN it.me.balance ELSE it.g2_files

C8_Loss ==
  IF C8_Baseline > it.me.balance THEN C8_Baseline - it.me.balance ELSE 0

\* C8: with a daily loss limit L > 0, an evaluation of guard_postsize that
\* obtains the balance reports realized loss max(0, baseline - balance) and
\* answers BLOCK_DAILY_LOSS_LIMIT iff that loss is >= L; a balance above
\* the baseline is allowed; an evaluation that does not reach the check or
\* gets no balance never answers BLOCK_DAILY_LOSS_LIMIT.
C8_LossLimit ==
  (Evaluated2 /\ cfg.daily_loss_limit_gbp > 0) =>
    IF it.me.kind = "ok"
    THEN /\ it.rg2.meta.pnl_baseline_gbp = C8_Baseline
         /\ it.rg2.meta.realized_loss_gbp = C8_Loss
         /\ it.rg2.reason = "BLOCK_DAILY_LOSS_LIMIT"
              <=> C8_Loss >= cfg.daily_loss_limit_gbp
         /\ it.me.balance > C8_Baseline => it.rg2.ok
    ELSE it.rg2.reason # "BLOCK_DAILY_LOSS_LIMIT"

\* blocked with the loss exactly at the limit
C8_Witness ==
  /\ Evaluated2 /\ it.me.kind = "ok"
  /\ it.rg2.reason = "BLOCK_DAILY_LOSS_LIMIT"
  /\ C8_Loss = cfg.daily_loss_limit_gbp

\* ---------------------------------------------------------------- C9
\* C9: when the loss-limit check is reached and the balance cannot be
\* obtained (the call fails or the body has no balance), guard_postsize
\* allows, with baseline, current balance and realized loss all None, and
\* the day's baseline file is left as it was.
C9_BalanceFailOpen ==
  ( /\ Evaluated2 /\ cfg.daily_loss_limit_gbp > 0
    /\ it.me.kind \in {"err", "nobal"} )
    => /\ it.rg2.ok /\ it.rg2.reason = "RG2_OK"
       /\ it.rg2.meta.pnl_baseline_gbp = None
       /\ it.rg2.meta.current_balance_gbp = None
       /\ it.rg2.meta.realized_loss_gbp = None
       /\ files[it.g2_now \div DayLen] = it.g2_files

\* no balance although the day already has a baseline
C9_Witness ==
  /\ Evaluated2 /\ cfg.daily_loss_limit_gbp > 0
  /\ it.me.kind = "nobal"
  /\ it.g2_files # None

\* --------------------------------------------------------------- C10
\* C10: when the concurrent-position check is reached, a failed position
\* query counts as zero open positions and allows; a query that succeeds
\* blocks with BLOCK_MAX_CONCURRENT_POSITIONS iff the number of open
\* positions is >= the cap.
C10_PositionsFailOpen ==
  ( /\ pc = "pre_eval" /\ cfg.enabled
    /\ cfg.max_concurrent_positions > 0
    /\ it.rg1.reason # "BLOCK_MAX_TRADES_PER_RUN" )
    => /\ it.pos.kind = "err"
            => (it.rg1.ok /\ it.rg1.meta.open_positions = 0)
       /\ it.pos.kind = "ok"
            => ( it.rg1.reason = "BLOCK_MAX_CONCURRENT_POSITIONS"
                   <=> it.pos.n >= cfg.max_concurrent_positions )

C10_Witness ==
  /\ pc = "pre_eval" /\ cfg.enabled
  /\ cfg.max_concurrent_positions > 0
  /\ it.pos.kind = "err" /\ it.rg1.ok

\* --------------------------------------------------------------- C11
\* C11: with risk_guards.enabled false, guard_preflight and guard_postsize
\* allow with the reason RG_DISABLED for every run counter, broker answer,
\* clock value, instrument and planned risk over the ledger at hand, they
\* ask the broker nothing and leave the baseline files alone; so do the
\* evaluations run_loop makes.  (The inputs are varied where run_loop is
\* about to call the guard.)
C11_DisabledAllows ==
  ~cfg.enabled =>
    /\ pc = "preflight" =>
         \A c \in 0..MaxIters, pos \in PositionsResponses \cup {NotAsked} :
           LET g == guard_preflight(cfg, c, pos)
           IN  g.ok /\ g.reason = "RG_DISABLED"
    /\ pc = "postsize" =>
         \A me \in MeResponses \cup {MeNotAsked}, n \in {"A", "B"},
            planned \in {0, 10, 16}, now \in 0..MaxClock :
           LET g == guard_postsize(cfg, ledger, now, files, me, n, planned)
           IN  g.ok /\ g.reason = "RG_DISABLED" /\ g.files = files
    /\ pc = "pre_eval" =>
         (it.rg1.ok /\ it.rg1.reason = "RG_DISABLED" /\ it.pos = NotAsked)
    /\ pc = "post_eval" =>
         (it.rg2.ok /\ it.rg2.reason = "RG_DISABLED" /\ it.me = MeNotAsked)

\* guard_postsize allowed as disabled where the trading window, the
\* instrument's daily cap, its cooldown and the risk budget would each block
C11_Witness ==
  /\ pc = "post_eval" /\ ~cfg.enabled
  /\ it.rg2.ok /\ it.rg2.reason = "RG_DISABLED"
  /\ ~in_trading_window(cfg, it.g2_now)
  /\ cfg.max_trades_per_day > 0
  /\ CountOn(Seen, it.name, it.g2_now \div DayLen) >= cfg.max_trades_per_day
  /\ C6_LastOrder # None
  /\ it.g2_now < C6_LastOrder + cfg.cooldown_min
  /\ cfg.daily_risk_budget_gbp > 0
  /\ RiskOn(Seen, it.g2_now \div DayLen) + it.g2_planned
       > cfg.daily_risk_budget_gbp

\* --------------------------------------------------------------- C12
\* C12: a day's balance baseline is written only by a loss-limit
\* evaluation of that day that obtains a balance while the day has no
\* baseline yet, and is then that balance; once written it never changes;
\* every evaluation that obtains a balance reports the stored baseline and
\* measures the realized loss against it.
C12_BaselineFixed ==
  [][ /\ \A d \in Days : files[d] # None => files'[d] = files[d]
      /\ \A d \in Days :
           (files[d] = None /\ files'[d] # None)
             => /\ pc = "postsize" /\ d = clock \div DayLen
                /\ it'.me.kind = "ok" /\ files'[d] = it'.me.balance
      /\ (pc = "postsize" /\ pc' = "post_eval" /\ it'.me.kind = "ok")
           => LET d == clock \div DayLen
                  m == it'.rg2.meta
              IN  /\ files'[d] # None
                  /\ m.pnl_baseline_gbp = files'[d]
                  /\ files[d] # None => m.pnl_baseline_gbp = files[d]
                  /\ m.realized_loss_gbp =
                       (IF files'[d] > it'.me.balance
                        THEN files'[d] - it'.me.balance ELSE 0) ]_vars

\* a later evaluation of the day, with another balance, reads the first
C12_Witness ==
  /\ pc = "post_eval" /\ cfg.enabled /\ cfg.daily_loss_limit_gbp > 0
  /\ it.me.kind = "ok"
  /\ it.g2_files # None /\ it.g2_files # it.me.balance
  /\ it.rg2.meta.pnl_baseline_gbp = it.g2_files
  /\ files[it.g2_now \div DayLen] = it.g2_files

\* --------------------------------------------------------------- C13
\* C13: with sentiment enabled and a BUY or SELL signal, the sentiment
\* gate moves on to sizing only with a result at hand whose score is
\* >= min_score; otherwise (no result, or a score below min_score) it
\* appends one NO_ORDER row for the instrument and goes to the next
\* instrument without building a payload, calling the broker or touching
\* the baseline; sizing, the postsize guard and submission run only in
\* iterations that passed the gate.
C13_SentimentGate ==
  [][ /\ (cfg.sentiment_enabled
            /\ pc \in {"sizing", "postsize", "post_eval", "place"})
           => (it.sent # Unset /\ it.sent >= cfg.min_score)
      /\ (pc = "sentiment" /\ cfg.sentiment_enabled
            /\ it.sig \in {"BUY", "SELL"})
           => \/ /\ pc' = "sizing"
                 /\ it'.sent # Unset /\ it'.sent >= cfg.min_score
                 /\ ledger' = ledger
              \/ /\ Len(ledger') = Len(ledger) + 1
                 /\ SubSeq(ledger', 1, Len(ledger)) = ledger
                 /\ ledger'[Len(ledger')].event = "NO_ORDER"
                 /\ ledger'[Len(ledger')].status
                      \in {"sentiment_unavailable", "sentiment_block"}
                 /\ ledger'[Len(ledger')].name = it.name
                 /\ pc' \in {"preflight", "summary"}
                 /\ run'.idx = run.idx + 1
                 /\ it' = ItBlank
                 /\ payloads' = payloads /\ brokerOrders' = brokerOrders
                 /\ files' = files ]_vars

\* no sentiment result: the instrument ended with NO_ORDER, nothing built
C13_Witness ==
  /\ cfg.sentiment_enabled
  /\ ledger # << >>
  /\ ledger[Len(ledger)].status = "sentiment_unavailable"
  /\ ledger[Len(ledger)].event = "NO_ORDER"
  /\ pc \in {"preflight", "summary"}
  /\ payloads = 0 /\ brokerOrders = 0

\* --------------------------------------------------------------- C14
\* C14: in a dry run (live flag false) no step calls the broker's order
\* endpoint or appends an ORDER_SENT or ORDER_FAIL row, and the step that
\* handles an order which passed every gate builds the payload and appends
\* one ORDER_DRY row for the instrument that carries that payload.
C14_DryRun ==
  [][ /\ ~run.live
           => /\ brokerOrders' = brokerOrders
              /\ \A i \in (Len(ledger) + 1)..Len(ledger') :
                   ledger'[i].event \notin {"ORDER_SENT", "ORDER_FAIL"}
      /\ (pc = "place" /\ ~run.live)
           => /\ payloads' = payloads + 1
              /\ Len(ledger') = Len(ledger) + 1
              /\ SubSeq(ledger', 1, Len(ledger)) = ledger
              /\ ledger'[Len(ledger')].event = "ORDER_DRY"
              /\ ledger'[Len(ledger')].name = it.name
              /\ ledger'[Len(ledger')].payload_json =
                   [direction |-> it.sig, size |-> it.size,
                    stopDistance |-> it.stop_pts] ]_vars

\* a dry order recorded with its payload, the broker never called
C14_Witness ==
  /\ ledger # << >>
  /\ ledger[Len(ledger)].event = "ORDER_DRY"
  /\ ledger[Len(ledger)].payload_json.size = 5
  /\ ledger[Len(ledger)].payload_json.direction \in {"BUY", "SELL"}
  /\ pc \in {"preflight", "summary"} /\ ~run.live
  /\ brokerOrders = 0 /\ payloads = 1

\* --------------------------------------------------------------- C15
C15_Times(i) == Cardinality({k \in 1..Len(run.calls) : run.calls[k] = i})

\* C15: in a live run ig.place_position is called at most once for each
\* watchlist instrument: a step calls it at most once, only when placing
\* the order of the current instrument, and that step ends the
\* instrument's iteration; a submission that does not end in ORDER_SENT
\* leaves an ORDER_FAIL row for the instrument, and the loop goes on to
\* the next instrument without a second attempt.
C15_SubmitOnce ==
  [][ /\ \A i \in 1..Len(watchlist) : C15_Times(i) <= 1
      /\ brokerOrders' <= brokerOrders + 1
      /\ brokerOrders' # brokerOrders
           => /\ pc = "place" /\ run.live
              /\ C15_Times(run.idx) = 0
              /\ Len(ledger') = Len(ledger) + 1
              /\ ledger'[Len(ledger')].event \in {"ORDER_SENT", "ORDER_FAIL"}
              /\ ledger'[Len(ledger')].name = it.name
              /\ run'.idx = run.idx + 1
              /\ run'.calls = Append(run.calls, run.idx)
              /\ pc' \in {"preflight", "summary"} ]_vars

\* --------------------------------------------------------------- C16
\* C16: every ORDER_SENT row of the ledger carries a non-empty deal
\* reference.
C16_SentHasReference ==
  \A i \in 1..Len(ledger) :
    ledger[i].event = "ORDER_SENT" => ledger[i].dealReference # ""

\* --------------------------------------------------------------- C17
C17_Names == [i \in 1..Len(watchlist) |-> watchlist[i].name]

\* C17: a step of run_loop that records a failure of the instrument (an
\* ERROR, NO_ORDER or ORDER_FAIL row) adds the instrument's outcome entry
\* and moves to the next instrument; a run ends only through its summary,
\* with exactly one outcome entry per watchlist instrument, in order.
C17_FailureIsolation ==
  [][ /\ (\E i \in (Len(ledger) + 1)..Len(ledger') :
            ledger'[i].event \in {"ERROR", "NO_ORDER", "ORDER_FAIL"})
           => /\ run'.idx = run.idx + 1
              /\ run'.outcomes = Append(run.outcomes, it.name)
              /\ pc' \in {"preflight", "summary"}
      /\ (pc # "idle" /\ pc' = "idle")
           => (pc = "summary" /\ run.outcomes = C17_Names) ]_vars

\* --------------------------------------------------------------- C18
C18_Terminal == {"NO_ORDER", "ERROR", "ORDER_DRY", "ORDER_SENT", "ORDER_FAIL"}

\* C18: within an iteration each stage runs only after the stages before
\* it, in the sequence preflight guard, market metadata, bars and signal,
\* sentiment gate, postsize guard, sizing, submission; from the signal on
\* the ledger ends with the instrument's SIGNAL row until the iteration
\* ends, and then with its one terminal row.
C18_StageOrder ==
  /\ it.mk.kind # "none" => it.rg1.ok
  /\ it.sig # "" => it.mk.kind = "ok"
  /\ it.sent # Unset => it.sig \in {"BUY", "SELL"}
  /\ it.g2_now # None
       => /\ it.sig \in {"BUY", "SELL"}
          /\ cfg.sentiment_enabled => it.sent # Unset
  /\ it.size # None => (it.g2_now # None /\ it.rg2.ok)
  /\ pc = "place" => it.size # None
  /\ pc \in {"sentiment", "sizing", "postsize", "post_eval", "place"}
       => /\ ledger # << >>
          /\ ledger[Len(ledger)].event = "SIGNAL"
          /\ ledger[Len(ledger)].name = it.name
  /\ (pc = "summary" \/ (pc = "preflight" /\ run.idx > 1))
       => /\ Len(ledger) > run.startLen
          /\ ledger[Len(ledger)].event \in C18_Terminal
          /\ ledger[Len(ledger)].name = watchlist[run.idx - 1].name

\* --------------------------------------------------------------- C19
\* C19: for point value > 0, stop distance > 0 and step > 0, sized_order
\* returns max(minSize, snapped), where snapped is the largest multiple of
\* step not exceeding rawSize = risk / (stop x pointValue): the final size
\* is >= minSize and is minSize or a multiple of step; above minSize it is
\* that largest multiple, and it is minSize only when no multiple of step
\* above minSize fits into rawSize.  Risk 50, stop 60, point value 10,
\* min 0.5, step 0.5 snaps to 0 and gives 0.5.
C19_SizedOrder ==
  /\ (pc = "postsize" /\ it.mk.vpp > 0 /\ it.stop_pts > 0 /\ it.mk.step > 0) =>
       LET risk == cfg.risk_per_trade_gbp
           unit == it.stop_pts * it.mk.vpp
           step == it.mk.step
           above == ((it.mk.min_sz \div step) + 1) * step
       IN  /\ it.size >= it.mk.min_sz
           /\ it.size = it.mk.min_sz \/ it.size % step = 0
           /\ IF it.size > it.mk.min_sz
              THEN /\ it.size % step = 0
                   /\ it.size * unit <= risk
                   /\ (it.size + step) * unit > risk
              ELSE above * unit > risk
  /\ snap(50000, 60 * 10, 500) = 0
  /\ sized_order([kind |-> "ok", vpp |-> 10, min_sz |-> 500, step |-> 500,
                  min_stop |-> 0], 50000, 60) = 500

\* the example: raw size 0.083 snapped to 0 and lifted to the minimum 0.5
C19_Witness ==
  /\ pc = "postsize"
  /\ cfg.risk_per_trade_gbp = 50000 /\ it.stop_pts = 60 /\ it.mk.vpp = 10
  /\ it.mk.min_sz = 500 /\ it.mk.step = 500
  /\ it.size = 500

\* --------------------------------------------------------------- C20
\* size x value per point x stop distance of the current iteration
C20_Effective == it.size * it.mk.vpp * it.stop_pts

C21_Kinds == {"CONFIRM_OK", "CONFIRM_FALLBACK_OK", "CONFIRM_FAIL"}

\* C21: when a reconciliation pass ends, the rows it appended are one for
\* every ORDER_SENT row of the selected run id, in their order, each of kind
\* CONFIRM_OK, CONFIRM_FALLBACK_OK or CONFIRM_FAIL and carrying that row's
\* deal reference, whatever the broker answered.
C21_OneRowEach ==
  pc = "enriched" =>
    LET added == SubSeq(ledger, rec.rows_len + 1, Len(ledger))
    IN  /\ Len(added) = Len(rec.sent)
        /\ \A k \in 1..Len(added) :
             /\ added[k].event \in C21_Kinds
             /\ added[k].dealReference = ledger[rec.sent[k]].dealReference

\* --------------------------------------------------------------- C22
\* the open positions sharing epic and direction with the ORDER_SENT row of
\* the round before
C22_Cands ==
  LET r == ledger[rec.sent[rec.k - 1]]
  IN  {i \in 1..Len(rec.cache.list) :
         /\ rec.cache.list[i].epic = r.name
         /\ rec.cache.list[i].direction = r.signal}

\* C22: after a round whose polling failed at every attempt, the row the
\* round appended is a CONFIRM_FALLBACK_OK row with the deal id of the open
\* position in its payload when exactly one open position shares epic and
\* direction with the ORDER_SENT row, and a CONFIRM_FAIL row when none does.
C22_Fallback ==
  ( /\ pc \in {"confirm", "enriched"} /\ rec.k > 1
    /\ ~rec.last.ok /\ ~rec.last.raised )
    => LET row == ledger[Len(ledger)]
       IN  /\ Cardinality(C22_Cands) = 1 =>
                /\ row.event = "CONFIRM_FALLBACK_OK"
                /\ \A i \in C22_Cands :
                     row.payload_json.dealId = rec.cache.list[i].dealId
           /\ C22_Cands = {} => row.event = "CONFIRM_FAIL"

\* --------------------------------------------------------------- C23
\* C23: every step of the pipeline and of the reconciler leaves the rows
\* the ledger had as they were and where they were: the ledger before the
\* step is a prefix of the ledger after it.
C23_AppendOnly ==
  [][ /\ Len(ledger') >= Len(ledger)
      /\ SubSeq(ledger', 1, Len(ledger)) = ledger ]_vars

\* an ORDER_SENT row with two reconciliations behind it
C23_Witness ==
  \E i, j, k \in 1..Len(ledger) :
    /\ i < j /\ j < k
    /\ ledger[i].event = "ORDER_SENT"
    /\ \A n \in {j, k} :
         /\ "stop_points" \in DOMAIN ledger[n]
         /\ ledger[n].stop_points \in C21_Kinds
         /\ ledger[n].run_id = ledger[i].run_id
         /\ ledger[n].name = ledger[i].name

\* --------------------------------------------------------------- C24
\* C24: the pass main() starts after a run confirms ORDER_SENT rows of that
\* run's id only, so none when that run submitted no order.
C24_OwnRun ==
  (pc \in {"confirm", "enriched"} /\ rec.parent # None) =>
    \A k \in 1..Len(rec.sent) : ledger[rec.sent[k]].run_id = rec.parent
\* C25 (as stated): in live mode an order is transmitted only in a process
\* whose operator typed exactly LIVE; every other answer ends the process
\* at the prompt: no run starts, no row is appended, nothing is sent.
C25_ExactAnswer ==
  [][ /\ (payloads' # payloads \/ brokerOrders' # brokerOrders)
           => (run.live => run.ack = LIVE)
      /\ (pc = "idle" /\ run' # run /\ run'.live /\ run'.ack # LIVE)
           => /\ pc' = "idle" /\ run'.rid = None
              /\ UNCHANGED <<ledger, files, brokerOrders, payloads>> ]_vars

\* C25 (corrected): in live mode an order is transmitted only in a process
\* whose operator's answer, stripped of surrounding blanks and put in upper
\* case, is LIVE; every other answer ends the process at the prompt, before
\* the session is opened: no run starts, no row is appended, nothing is
\* sent, and nothing follows in that process.
C25_LiveNeedsAck ==
  [][ /\ (payloads' # payloads \/ brokerOrders' # brokerOrders)
           => (run.live => upper(strip(run.ack)) = LIVE)
      /\ (pc = "idle" /\ run' # run /\ run'.live
            /\ upper(strip(run'.ack)) # LIVE)
           => /\ pc' = "idle" /\ run'.rid = None
              /\ UNCHANGED <<ledger, files, brokerOrders, payloads>>
      /\ (run.live /\ upper(strip(run.ack)) # LIVE)
           => /\ pc = "idle"
              /\ UNCHANGED <<ledger, files, brokerOrders, payloads>> ]_vars

\* a process ended at the prompt after an earlier live run sent an order
C25_Witness ==
  /\ pc = "idle" /\ run.live /\ run.rid = None
  /\ run.ack = <<"L", "I", "V", "E", "!">>
  /\ brokerOrders > 0
  /\ \E i \in 1..Len(ledger) : ledger[i].event = "ORDER_SENT"

\* --------------------------------------------------------------- C26
\* C26: for a frame of at least warmup_bars bars whose last sma20 and rsi14
\* are defined, the signal logged is BUY iff close > sma20 and rsi14 >=
\* rsi_buy_min, SELL iff close < sma20 and rsi14 <= rsi_sell_max, and HOLD
\* in every other case; the two conditions never hold together.  Close
\* 5500, sma20 5490, rsi 58 and buy threshold 55 give BUY; rsi 49 and sell
\* threshold 45 give HOLD.
C26_Signal ==
  [][ ( /\ pc = "prices" /\ it.df.kind = "ok"
        /\ it.df.n >= cfg.warmup_bars /\ it.df.n > 0
        /\ it.df.sma20 # None /\ it.df.rsi14 # None )
      => LET row == ledger'[Len(ledger) + 1]
             buy == it.df.close > it.df.sma20
                    /\ it.df.rsi14 >= cfg.rsi_buy_min
             sell == it.df.close < it.df.sma20
                     /\ it.df.rsi14 <= cfg.rsi_sell_max
         IN  /\ row.event = "SIGNAL"
             /\ row.signal \in {"BUY", "SELL", "HOLD"}
             /\ row.signal = "BUY" <=> buy
             /\ row.signal = "SELL" <=> sell
             /\ row.signal = "HOLD" <=> (~buy /\ ~sell)
             /\ ~(buy /\ sell)
             /\ simple_signal([kind |-> "ok", n |-> 30, close |-> 5500,
                               sma20 |-> 5490, rsi14 |-> 58], 55, 45, 20)
                  = "BUY"
             /\ simple_signal([kind |-> "ok", n |-> 30, close |-> 18510,
                               sma20 |-> 18500, rsi14 |-> 49], 55, 45, 20)
                  = "HOLD"
             /\ simple_signal([kind |-> "ok", n |-> 30, close |-> 5480,
                               sma20 |-> 5490, rsi14 |-> 49], 55, 45, 20)
                  = "HOLD" ]_vars

\* the example: BUY was logged for close 5500, sma20 5490, rsi 58 under
\* the buy threshold 55
C26_Witness ==
  /\ pc = "sentiment" /\ it.sig = "BUY"
  /\ it.df.close = 5500 /\ it.df.sma20 = 5490 /\ it.df.rsi14 = 58
  /\ cfg.rsi_buy_min = 55 /\ cfg.rsi_sell_max = 45
  /\ ledger[Len(ledger)].event = "SIGNAL"
  /\ ledger[Len(ledger)].signal = "BUY"

\* --------------------------------------------------------------- C27
\* C27 (as stated): for bars fewer than warmup_bars the last sma20 and
\* rsi14 are both null and the signal is HOLD: SIGNAL and NO_ORDER hold
\* are logged and the iteration ends, with no sentiment call, no sizing
\* and no order for the instrument.
C27_AllNull ==
  [][ (pc = "prices" /\ it.df.kind = "ok" /\ it.df.n > 0
        /\ it.df.n < cfg.warmup_bars)
      => /\ it.df.sma20 = None /\ it.df.rsi14 = None
         /\ pc' \in {"preflight", "summary"} ]_vars

\* C27 (corrected): for bars fewer than warmup_bars the signal is HOLD:
\* SIGNAL and NO_ORDER hold are logged and the iteration ends, with no
\* sentiment call, no sizing and no order for the instrument.  sma20 is
\* null for fewer than 20 bars and rsi14 for fewer than 15; from 15 bars
\* on rsi14 is computed unless the closes did not move, and from 20 bars
\* on sma20, also inside a longer warmup window.
C27_WarmupHold ==
  [][ /\ (pc = "prices" /\ it.df.kind = "ok" /\ it.df.n > 0
            /\ it.df.n < cfg.warmup_bars)
          => /\ Len(ledger') = Len(ledger) + 2
             /\ ledger'[Len(ledger) + 1].event = "SIGNAL"
             /\ ledger'[Len(ledger) + 1].signal = "HOLD"
             /\ ledger'[Len(ledger) + 2].event = "NO_ORDER"
             /\ ledger'[Len(ledger) + 2].status = "hold"
             /\ pc' \in {"preflight", "summary"}
             /\ it' = ItBlank
             /\ UNCHANGED <<payloads, brokerOrders, faults>>
      /\ (pc = "prices" /\ it.df.kind = "ok" /\ it.df.n < SmaLen)
          => it.df.sma20 = None
      /\ (pc = "prices" /\ it.df.kind = "ok" /\ it.df.n <= RsiLen)
          => it.df.rsi14 = None
      /\ \A n \in BarCounts, shape \in Shapes :
           LET df == Frame(Bars(n, shape))
           IN  /\ df.sma20 = None <=> n < SmaLen
               /\ df.rsi14 = None <=> (n <= RsiLen \/ shape = "flat") ]_vars

\* under a warmup window longer than every frame the iteration ended with
\* HOLD and nothing else
C27_Witness ==
  /\ cfg.warmup_bars = 31 /\ pc = "summary"
  /\ Len(ledger) = 2
  /\ ledger[1].event = "SIGNAL" /\ ledger[1].signal = "HOLD"
  /\ ledger[2].event = "NO_ORDER" /\ ledger[2].status = "hold"
  /\ payloads = 0 /\ brokerOrders = 0

\* --------------------------------------------------------------- C28
\* C28: for every reply of the model's endpoint
\* get_sentiment_for_price_action returns unavailable or a result whose
\* score lies in [0, 1] and whose label is bullish, bearish or neutral: a
\* score outside the range is clamped to the nearer end, an unknown label
\* becomes neutral, and a missing key, an exception of the request, an
\* HTTP error or a malformed reply give unavailable; run_loop then logs
\* NO_ORDER sentiment_unavailable and sends nothing.
C28_Sentiment ==
  [][ pc = "sentiment" =>
      LET reply == it.reply
          sent == get_sentiment_for_price_action(reply)
      IN  /\ sent = Unavailable
             \/ ( /\ sent.ok /\ sent.score \in 0..100
                  /\ sent.label \in {"bullish", "bearish", "neutral"} )
          /\ (reply.kind = "dict" /\ reply.score.kind = "num") =>
               /\ sent.ok
               /\ reply.score.v > 100 => sent.score = 100
               /\ reply.score.v < 0 => sent.score = 0
               /\ reply.score.v \in 0..100 => sent.score = reply.score.v
               /\ reply.label \in {"bullish", "bearish", "neutral"}
                    => sent.label = reply.label
               /\ reply.label = "strong buy" => sent.label = "neutral"
          /\ reply.kind # "dict" =>
               /\ sent = Unavailable
               /\ ledger' = Append(ledger,
                    Row("NO_ORDER", "sentiment_unavailable", it.sig, None, ""))
               /\ pc' \in {"preflight", "summary"}
               /\ UNCHANGED <<payloads, brokerOrders>> ]_vars

\* a score of 1.5 came back and was taken as 1: the gate let the order on
C28_Witness ==
  /\ pc = "sizing"
  /\ it.reply.kind = "dict" /\ it.reply.score = [kind |-> "num", v |-> 150]
  /\ it.reply.label = "strong buy"
  /\ it.sent = 100

\* --------------------------------------------------------------- C29
\* C29: with two runs interleaved on one ledger, an order row is appended
\* only by a run whose guard_postsize found room in the daily risk budget
\* and under the instrument's daily cap in the ledger as it read it; the
\* day's committed risk exceeds the budget, or the instrument's order rows
\* the cap, exactly by order rows that were appended between that read and
\* the append (iterations within one UTC day).  Such a state is reachable:
\* nothing between the check and the append keeps the other run out.
C29_CheckThenAppend ==
  [][ ( /\ Len(ledger') = Len(ledger) + 1
        /\ IsOrderRow(ledger'[Len(ledger')])
        /\ Day(it.ts_utc) = Day(it.g2_now) )
      => LET d == Day(it.ts_utc)
             between == {i \in (it.g2_len + 1)..Len(ledger) :
                           IsOrderRow(ledger[i]) /\ Day(ledger[i].ts_utc) = d}
         IN  /\ it.rg2.ok
             /\ RiskOn(Seen, d) + it.eff_risk <= cfg.daily_risk_budget_gbp
             /\ CountOn(Seen, it.name, d) < cfg.max_trades_per_day
             /\ RiskOn(ledger', d) > cfg.daily_risk_budget_gbp
                  => between # {}
             /\ CountOn(ledger', it.name, d) > cfg.max_trades_per_day
                  => \E i \in between : ledger[i].name = it.name ]_vars

\* both runs passed the checks before either appended: the day's committed
\* risk is twice the budget and the instrument has two order rows under a
\* cap of one
C29_Witness ==
  /\ cfg.enabled
  /\ RiskOn(ledger, 0) > cfg.daily_risk_budget_gbp
  /\ CountOn(ledger, "A", 0) > cfg.max_trades_per_day
  /\ clock < DayLen

\* --------------------------------------------------------------- C30
\* the checks of guard_postsize that fail on what the evaluation read
C30_Window == ~in_trading_window(cfg, it.g2_now)
C30_Cap ==
  /\ cfg.max_trades_per_day # 0
  /\ count_orders_today_instrument(Seen, it.g2_now, it.name)
       >= cfg.max_trades_per_day
C30_Cooldown ==
  /\ cfg.cooldown_min > 0
  /\ last_order_time_instrument(Seen, it.g2_now, it.name) # None
  /\ it.g2_now < last_order_time_instrument(Seen, it.g2_now, it.name)
                   + cfg.cooldown_min
C30_Budget ==
  /\ cfg.daily_risk_budget_gbp > 0
  /\ today_committed_risk_gbp(Seen, it.g2_now) + Max2(0, it.g2_planned)
       > cfg.daily_risk_budget_gbp
C30_Loss ==
  /\ cfg.daily_loss_limit_gbp > 0
  /\ it.rg2.meta.realized_loss_gbp \notin {Unset, None}
  /\ it.rg2.meta.realized_loss_gbp >= cfg.daily_loss_limit_gbp

\* the checks of guard_preflight
C30_PerRun ==
  cfg.max_trades_per_run # 0 /\ run.run_trade_count >= cfg.max_trades_per_run
C30_Concurrent(pos) ==
  /\ cfg.max_concurrent_positions # 0
  /\ pos.kind = "ok" /\ pos.n >= cfg.max_concurrent_positions

\* C30: guard_postsize names the first check that fails in the order
\* trading window, per-instrument daily cap, cooldown, daily risk budget,
\* daily loss limit, also when later checks would fail as well, and does
\* not evaluate the checks after it; guard_preflight names the per-run cap
\* before the concurrent-positions cap, whatever the broker would answer
\* for the open positions.
C30_FirstFailing ==
  /\ (pc = "post_eval" /\ cfg.enabled) =>
       LET reason == it.rg2.reason
           meta == it.rg2.meta
       IN  /\ reason = "BLOCK_TRADING_WINDOW" <=> C30_Window
           /\ reason = "BLOCK_MAX_TRADES_PER_DAY_INSTRUMENT"
                <=> (~C30_Window /\ C30_Cap)
           /\ reason = "BLOCK_COOLDOWN_INSTRUMENT"
                <=> (~C30_Window /\ ~C30_Cap /\ C30_Cooldown)
           /\ reason = "BLOCK_DAILY_RISK_BUDGET"
                <=> (~C30_Window /\ ~C30_Cap /\ ~C30_Cooldown /\ C30_Budget)
           /\ reason = "BLOCK_DAILY_LOSS_LIMIT"
                <=> ( /\ ~C30_Window /\ ~C30_Cap /\ ~C30_Cooldown
                      /\ ~C30_Budget /\ C30_Loss )
           /\ it.rg2.ok <=> reason = "RG2_OK"
           /\ C30_Window => meta.orders_today_instrument = Unset
           /\ (C30_Window \/ C30_Cap) => meta.last_order_ts = Unset
           /\ (C30_Window \/ C30_Cap \/ C30_Cooldown)
                => meta.today_committed_risk_gbp = Unset
           /\ (C30_Window \/ C30_Cap \/ C30_Cooldown \/ C30_Budget)
                => (meta.realized_loss_gbp = Unset /\ it.me = MeNotAsked)
  /\ (pc = "pre_eval" /\ cfg.enabled) =>
       /\ it.rg1.reason = "BLOCK_MAX_TRADES_PER_RUN" <=> C30_PerRun
       /\ it.rg1.reason = "BLOCK_MAX_CONCURRENT_POSITIONS"
            <=> (~C30_PerRun /\ C30_Concurrent(it.pos))
       /\ C30_PerRun =>
            /\ it.pos = NotAsked
            /\ \A pos \in PositionsResponses :
                 guard_preflight(cfg, run.run_trade_count, pos).reason
                   = "BLOCK_MAX_TRADES_PER_RUN"

\* the daily cap, the cooldown and the budget fail at once, and the result
\* names the cap
C30_Witness ==
  /\ pc = "post_eval" /\ cfg.enabled
  /\ ~C30_Window /\ C30_Cap /\ C30_Cooldown /\ C30_Budget
  /\ it.rg2.reason = "BLOCK_MAX_TRADES_PER_DAY_INSTRUMENT"

\* --------------------------------------------------------------- C31
\* the three daily quantities guard_postsize reads, at time now for
\* instrument n
C31_Daily(log, now, n) ==
  <<count_orders_today_instrument(log, now, n),
    last_order_time_instrument(log, now, n),
    today_committed_risk_gbp(log, now)>>

\* the order rows of log dated the day of now
C31_Today(log, now) ==
  SelectSeq(log, LAMBDA r : IsOrderRow(r) /\ r.ts_utc \div DayLen = now \div DayLen)

\* C31: at every time and for every instrument the per-instrument order
\* count, the last order time and the committed risk are those of the
\* ORDER_SENT and ORDER_DRY rows dated the current UTC day alone, and a
\* step that appends only rows dated another day or rows of another kind
\* leaves all three as they were.
C31_OnlyTodaysOrders ==
  [][\A now \in {d * DayLen : d \in Days}, n \in {"A", "B"} :
       /\ C31_Daily(ledger, now, n) = C31_Daily(C31_Today(ledger, now), now, n)
       /\ ( /\ Len(ledger') > Len(ledger)
            /\ SubSeq(ledger', 1, Len(ledger)) = ledger
            /\ \A i \in (Len(ledger) + 1)..Len(ledger') :
                 \/ ledger'[i].ts_utc \div DayLen # now \div DayLen
                 \/ ~IsOrderRow(ledger'[i]) )
          => C31_Daily(ledger', now, n) = C31_Daily(ledger, now, n)]_vars

\* an order row of day 0, and after it a row of a failure, a row of the
\* reconciler and an order row of day 1: at a time of day 0 the quantities
\* are still those of the first row
C31_Witness ==
  \E i, j, k, l \in 1..Len(ledger) :
    /\ i < j /\ i < k /\ i < l
    /\ IsOrderRow(ledger[i]) /\ ledger[i].ts_utc \div DayLen = 0
    /\ ledger[j].event \in {"SIGNAL", "NO_ORDER", "ERROR", "ORDER_FAIL"}
    /\ ledger[k].event = "" /\ ledger[k].dealReference = ""
    /\ IsOrderRow(ledger[l]) /\ ledger[l].ts_utc \div DayLen = 1
    /\ C31_Daily(ledger, 0, "A") = C31_Daily(SubSeq(ledger, 1, i), 0, "A")

\* --------------------------------------------------------------- C32
\* C32: a polling ends after a bounded number of requests.  try_confirm
\* makes at most `attempts` calls (6 by default), stops at the first
\* answer with a deal id or a deal status, and reports failure after
\* `attempts` answers without one.  confirm_with_retry makes at most
\* min(attempts, 6) rounds, each asking version 1 and then version 2,
\* sleeps 0.5, 1, 2, 3, 4, 5 seconds after the rounds in this order, and
\* after the last round without an answer makes exactly one more request.
C32_BoundedPolling ==
  /\ Attempts = 6
  /\ delays = <<5, 10, 20, 30, 40, 50>>
  /\ pc = "polled" =>
       LET attempts == rec.poll.attempts
           answers == rec.poll.answers
           out == rec.poll.out
           rounds == IF attempts < 6 THEN attempts ELSE 6
       IN  /\ rec.poll.fn = "try_confirm" =>
                /\ out.calls <= attempts
                /\ out.ok <=> \E n \in 1..attempts : answers[n] \in {"id", "status"}
                /\ out.ok => /\ answers[out.calls] \in {"id", "status"}
                             /\ \A n \in 1..(out.calls - 1) :
                                  answers[n] \notin {"id", "status"}
                /\ ~out.ok => out.calls = attempts
           /\ rec.poll.fn = "confirm_with_retry" =>
                /\ Len(out.slept) <= rounds
                /\ out.slept = SubSeq(delays, 1, Len(out.slept))
                /\ out.final \in {0, 1}
                /\ out.final = 1 <=>
                     \A n \in 1..(2 * rounds) : answers[n] \in {"404", "500"}
                /\ out.final = 1 => Len(out.slept) = rounds
                /\ Len(out.versions) <= 2 * rounds + 1
                /\ \A n \in 1..(Len(out.versions) - out.final) :
                     out.versions[n] = IF n % 2 = 1 THEN "1" ELSE "2"
                /\ out.final = 1 => out.versions[Len(out.versions)] = "2"
                /\ out.out \in {"json", "raw", "raise"}

\* eight attempts asked of confirm_with_retry and no request answered:
\* six rounds and one more request
C32_Witness ==
  /\ pc = "polled"
  /\ rec.poll.fn = "confirm_with_retry"
  /\ rec.poll.attempts = 8
  /\ Len(rec.poll.out.versions) = 13
  /\ rec.poll.out.slept = delays
  /\ rec.poll.out.final = 1

C34_PickMatch ==
  pc = "picked" =>
    LET positions == rec.pick.positions
        out == rec.pick.out
        cands == {i \in 1..Len(positions) :
                    /\ positions[i].epic = rec.pick.epic
                    /\ positions[i].direction = rec.pick.direction}
    IN  /\ out = NoPosition <=> cands = {}
        /\ cands # {} =>
             /\ \E i \in cands : out = positions[i]
             /\ rec.pick.size_hint # None =>
                  \A i \in cands :
                    Dist(out.size, rec.pick.size_hint)
                      <= Dist(positions[i].size, rec.pick.size_hint)
             /\ rec.pick.size_hint = None =>
                  \A i \in cands :
                    positions[i].created.fmt # "none"
                      => /\ out.created.fmt # "none"
                         /\ out.created.t >= positions[i].created.t

\* --------------------------------------------------------------- C35
\* C35: the cooldown holds across midnight: when the instrument's most
\* recent order row is at time T of one UTC day and guard_postsize is
\* evaluated on the following UTC day at now < T + cooldown_min (and no
\* earlier check blocked), it answers BLOCK_COOLDOWN_INSTRUMENT.
C35_AcrossMidnight ==
  ( /\ Evaluated2 /\ cfg.cooldown_min > 0
    /\ C6_LastOrder # None
    /\ Day(it.g2_now) = Day(C6_LastOrder) + 1
    /\ it.g2_now < C6_LastOrder + cfg.cooldown_min
    /\ it.rg2.reason \notin {"BLOCK_TRADING_WINDOW",
                             "BLOCK_MAX_TRADES_PER_DAY_INSTRUMENT"} )
    => it.rg2.reason = "BLOCK_COOLDOWN_INSTRUMENT"

\* --------------------------------------------------------------- C36
\* C36: every call of ig.place_position is followed, before the run moves
\* on to the next instrument or ends, by an ORDER_SENT or ORDER_FAIL row
\* of that instrument and run, whatever the call did (a deal reference, an
\* HTTP error, a timeout or a connection error).
C36_SubmissionLogged ==
  [][ brokerOrders' > brokerOrders =>
        /\ Len(ledger') = Len(ledger) + 1
        /\ ledger'[Len(ledger')].event \in {"ORDER_SENT", "ORDER_FAIL"}
        /\ ledger'[Len(ledger')].name = it.name
        /\ ledger'[Len(ledger')].run_id = run.rid
        /\ run'.rid \in {run.rid, None} ]_vars

\* --------------------------------------------------------------- C37
\* C37: a row the reconciler appends with write_log_row, read back through
\* the header of the ledger as _read_csv_rows reads it, has the event, the
\* status, the dealReference and the run id it was written with.
C37_RoundTrip ==
  [][ (pc = "confirm" /\ Len(ledger') = Len(ledger) + 1) =>
        \E answers \in ConfirmAnswers,
           lp \in LoadPositions \cup {LoadNotAsked} :
          LET round == confirm_round(ledger[rec.sent[rec.k]],
                                     try_confirm(answers), rec.cache, lp)
              back == ledger'[Len(ledger')]
          IN  /\ (lp = LoadNotAsked) <=> ~round.asked
              /\ ~round.raised
              /\ back.event = round.row.event
              /\ back.status = round.row.status
              /\ back.dealReference = round.row.dealReference
              /\ back.run_id = round.row.run_id ]_vars

\* ----------------------------------------- a market listed twice
\* cfg["watchlist"] is read as it is written: run_loop goes through its
\* items in order and nothing keeps an epic from being listed twice, here
\* with the same stop.  The post-run step is on and no call of the
\* pipeline fails.
InitTwice ==
  /\ clock = 0
  /\ ledger = << >>
  /\ files = [d \in Days |-> None]
  /\ cfg = CfgBase
  /\ watchlist = << [name |-> "A", stop_points |-> 1],
                    [name |-> "A", stop_points |-> 1] >>
  /\ iters = 0
  /\ pc = "idle"
  /\ run = RunBlank
  /\ it = ItBlank
  /\ faults = MaxFaults
  /\ brokerOrders = 0
  /\ payloads = 0
  /\ win = WinBlank
  /\ enrich = TRUE
  /\ rec = RecBlank
  /\ other = OtherBlank

SpecTwice == InitTwice /\ [][NextAuto]_vars

\* --------------------------------------------------------------- C38
\* C38: within one pass of the reconciler the CONFIRM_FALLBACK_OK rows
\* reference pairwise distinct positions: no position (deal id) is given
\* to two ORDER_SENT rows.  (A reconciler row read under the header of the
\* ledger has its event under stop_points and its payload under
\* size_final.)
C38_DistinctPositions ==
  pc \in {"confirm", "enriched"} =>
    \A i \in (rec.rows_len + 1)..Len(ledger), j \in (rec.rows_len + 1)..Len(ledger) :
      (/\ i < j
       /\ ledger[i].stop_points = "CONFIRM_FALLBACK_OK"
       /\ ledger[j].stop_points = "CONFIRM_FALLBACK_OK")
      => ledger[i].size_final.dealId # ledger[j].size_final.dealId

\* --------------------------------------------------------------- C39
\* Guards enabled or not, with a loss limit or without, behind every
\* earlier check of guard_postsize (trading hours of one minute a day),
\* and a balance that may be missing.
SpecBaseline ==
  Boot({[CfgChain EXCEPT !.th_end = 0, !.max_concurrent_positions = 0],
        CfgOff, [CfgChain EXCEPT !.daily_loss_limit_gbp = 0]},
       FALSE, {w \in Watchlists : Len(w) = 1}) /\ [][Next]_vars

\* C39: a guard evaluation leaves the ledger as it is, and the only file it
\* touches is the baseline of the day: guard_preflight writes nothing, and
\* guard_postsize creates the baseline only when the guards are enabled,
\* the loss limit is positive, no earlier check blocked and the balance
\* was obtained; then the file did not exist and holds that balance.  A
\* baseline that exists is never changed.
C39_GuardsLeaveState ==
  [][ /\ pc \in {"preflight", "postsize"} => ledger' = ledger
      /\ pc # "postsize" => files' = files
      /\ files' # files =>
           /\ pc' = "post_eval"
           /\ cfg.enabled
           /\ cfg.daily_loss_limit_gbp > 0
           /\ it'.rg2.reason \in {"RG2_OK", "BLOCK_DAILY_LOSS_LIMIT"}
           /\ it'.me.kind = "ok"
           /\ files[Day(clock)] = None
           /\ files' = [files EXCEPT ![Day(clock)] = it'.me.balance] ]_vars

\* the baseline of the day was created by an evaluation that reached the
\* loss-limit check with a balance
C39_Witness ==
  /\ pc = "post_eval"
  /\ cfg.enabled /\ cfg.daily_loss_limit_gbp > 0
  /\ it.me.kind = "ok"
  /\ it.g2_files = None
  /\ files[Day(clock)] = it.me.balance

\* --------------------------------------------------------------- C40
\* C40: the sentiment gate decides by the score and min_score alone: the
\* step of the gate goes on to sizing exactly when the reply gives a score
\* and the score is not below min_score, and it would do the same had the
\* reply carried any other label, whichever the direction of the signal;
\* so a SELL signal with a bullish label and a score of at least min_score
\* passes.
C40_ScoreOnly ==
  [][ pc = "sentiment" =>
        \A l \in {"bullish", "bearish", "neutral"} :
          LET sent == get_sentiment_for_price_action(
                        [it.reply EXCEPT !.label = l])
          IN  (pc' = "sizing") <=> (sent.ok /\ sent.score >= cfg.min_score)
    ]_vars

\* a SELL signal, a bullish label and a score not below min_score: passed
C40_Witness ==
  /\ pc = "sizing"
  /\ it.sig = "SELL"
  /\ it.reply.kind = "dict" /\ it.reply.label = "bullish"
  /\ it.sent >= cfg.min_score
  /\ Len(ledger) = 1

====
